---- MODULE Spec2Model ----
(***************************************************************************)
(* Model of the ALONI booking scripts (kamness26/ALONI).                   *)
(*                                                                         *)
(* The engine of scripts/book_class_verified_functional.py drives an       *)
(* externally owned calendar/list surface to the target day, scans the     *)
(* session list for the target class and clicks BOOK behind a guard.  The  *)
(* two older variants (scripts/book_class_mvp_v3_1.py and                  *)
(* scripts/scripts/book_class_verified_functional.py) are modelled as      *)
(* their own, shorter flows.                                               *)
(*                                                                         *)
(* Every engine action is one call of the script on the surface; between   *)
(* two engine actions the surface may change on its own (snap back to      *)
(* today, re-render the list, open the cancel dialog).                     *)
(***************************************************************************)
EXTENDS Naturals, Integers, Sequences, FiniteSets, TLC

(***************************************************************************)
(* Bounds of the model                                                     *)
(***************************************************************************)
\* number of consecutive values of "now" that Init draws from, the first
\* being Thursday, Feb 15
NowCount == 2
\* how many times the surface may change on its own in one run (snap back
\* to today, re-render the session list, open the cancel dialog)
MaxEvents == 1
\* longest rendered session list
MaxRows == 2
\* the surface snaps back only during the first passes of find_row
DriftPasses == 1
\* days the strip materializes at once
WinLen == 7
\* last day the strip can show, counted from today
StripAhead == 20
\* width of one day cell of the strip, in pixels
CellPx == 120

(***************************************************************************)
(* Program constants                                                       *)
(***************************************************************************)
DaysAhead == 13
NavMaxSteps == 28
SelectAttempts == 5
FindAttempts == 26
MainRetries == 3
FindRetries == 1
GuardRetries == 2
LegacyScrolls == 20
RolloverDays == 200
StripScrollPx == 420
NudgePx == 360

(***************************************************************************)
(* Text: a string is a sequence of one-character strings                   *)
(***************************************************************************)
IsSpace(c) == c \in {" ", "\n", "\t"}

LowerChar(c) ==
    CASE c = "A" -> "a" [] c = "B" -> "b" [] c = "C" -> "c" [] c = "D" -> "d"
      [] c = "E" -> "e" [] c = "F" -> "f" [] c = "G" -> "g" [] c = "H" -> "h"
      [] c = "I" -> "i" [] c = "J" -> "j" [] c = "K" -> "k" [] c = "L" -> "l"
      [] c = "M" -> "m" [] c = "N" -> "n" [] c = "O" -> "o" [] c = "P" -> "p"
      [] c = "Q" -> "q" [] c = "R" -> "r" [] c = "S" -> "s" [] c = "T" -> "t"
      [] c = "U" -> "u" [] c = "V" -> "v" [] c = "W" -> "w" [] c = "X" -> "x"
      [] c = "Y" -> "y" [] c = "Z" -> "z" [] OTHER -> c

\* str.lower()
Lower(s) == [i \in 1..Len(s) |-> LowerChar(s[i])]

RECURSIVE DropSpace(_)
DropSpace(s) ==
    IF s # <<>> /\ IsSpace(Head(s)) THEN DropSpace(Tail(s)) ELSE s

\* re.sub(r"\s+", " ", s)
RECURSIVE CollapseSpace(_)
CollapseSpace(s) ==
    IF s = <<>> THEN <<>>
    ELSE IF IsSpace(Head(s)) THEN <<" ">> \o CollapseSpace(DropSpace(Tail(s)))
    ELSE <<Head(s)>> \o CollapseSpace(Tail(s))

\* re.sub(r"\s+", "", s)
RemoveSpace(s) == SelectSeq(s, LAMBDA c : ~IsSpace(c))

RECURSIVE DropSpaceEnd(_)
DropSpaceEnd(s) ==
    IF s # <<>> /\ IsSpace(s[Len(s)]) THEN DropSpaceEnd(SubSeq(s, 1, Len(s) - 1))
    ELSE s

\* str.strip()
Strip(s) == DropSpaceEnd(DropSpace(s))

\* needle in hay
Contains(hay, needle) ==
    \E i \in 0..(Len(hay) - Len(needle)) :
        SubSeq(hay, i + 1, i + Len(needle)) = needle

S_booked == <<"b","o","o","k","e","d">>
S_waitlisted == <<"w","a","i","t","l","i","s","t","e","d">>
S_join_waitlist == <<"j","o","i","n"," ","w","a","i","t","l","i","s","t">>
S_session_started == <<"s","e","s","s","i","o","n"," ","s","t","a","r","t","e","d">>
S_class_full == <<"c","l","a","s","s"," ","f","u","l","l">>
S_cancel_class == <<"c","a","n","c","e","l"," ","c","l","a","s","s">>
S_book == <<"b","o","o","k">>
S_ys == <<"y","s"," ","-"," ","y","o","g","a"," ","s","c","u","l","p","t">>
S_flatiron == <<"f","l","a","t","i","r","o","n">>
S_yoga_sculpt == <<"y","o","g","a"," ","s","c","u","l","p","t">>
S_615 == <<"6",":","1","5">>
S_615_pm == <<"6",":","1","5"," ","p","m">>

\* the target time set to the time the studio shows locally
TARGET_CLASS_LOCAL_615 == <<"6",":","1","5"," ","P","M">>

\* the default of TARGET_CLASS_TIME_UTC
TARGET_CLASS_LOCAL == <<"1","1",":","1","5"," ","P","M">>

target_time_token == RemoveSpace(Lower(Strip(TARGET_CLASS_LOCAL)))

(***************************************************************************)
(* The rows a session list can render.  A row is its body text and the     *)
(* texts of its CTA divs, buttons and links, in document order.            *)
(***************************************************************************)
B_sculpt == <<"1","1",":","1","5"," ","P","M","\n","Y","S"," ","-"," "," ","Y","o","g","a"," ","S","c","u","l","p","t","\n","F","l","a","t","i","r","o","n">>
B_sculpt_wait == <<"1","1",":","1","5"," ","P","M","\n","Y","S"," ","-"," ","Y","o","g","a"," ","S","c","u","l","p","t","\n","F","l","a","t","i","r","o","n","\n","W","a","i","t","l","i","s","t","e","d">>
B_sculpt_615 == <<"6",":","1","5"," ","P","M","\n","Y","S"," ","-"," ","Y","o","g","a"," ","S","c","u","l","p","t","\n","F","l","a","t","i","r","o","n">>
E_BOOK == <<"B","O","O","K">>
E_Book_ws == <<" ","B","o","o","k","\n">>
E_BOOK_NOW == <<"B","O","O","K"," ","N","O","W">>

\* 1: the class, bookable; 2: the class, waitlisted; 3: the class, with a
\* button that is not exactly BOOK; 4: the class at another time, bookable
RowCat ==
    << [body |-> B_sculpt,      ctaDivs |-> <<E_Book_ws>>, buttons |-> <<>>,           links |-> <<>>],
       [body |-> B_sculpt_wait, ctaDivs |-> <<E_BOOK>>,    buttons |-> <<>>,           links |-> <<>>],
       [body |-> B_sculpt,      ctaDivs |-> <<>>,          buttons |-> <<E_BOOK_NOW>>, links |-> <<>>],
       [body |-> B_sculpt_615,         ctaDivs |-> <<E_BOOK>>,    buttons |-> <<>>,           links |-> <<>>] >>

RowKinds == 1..Len(RowCat)

RECURSIVE JoinLines(_)
JoinLines(ts) ==
    IF ts = <<>> THEN <<>> ELSE <<"\n">> \o Head(ts) \o JoinLines(Tail(ts))

\* locator.inner_text() of a row
InnerText(r) == r.body \o JoinLines(r.ctaDivs \o r.buttons \o r.links)

(***************************************************************************)
(* Row predicates                                                          *)
(***************************************************************************)
\* the forbidden terms without "waitlisted"
forbidden_no_waitlist ==
    <<S_booked, S_join_waitlist, S_session_started, S_class_full, S_cancel_class>>

forbidden ==
    <<S_booked, S_waitlisted, S_join_waitlist, S_session_started,
      S_class_full, S_cancel_class>>

\* a status test that has lost the term "waitlisted"
_row_has_forbidden_status_short(text_norm) ==
    \E k \in {1, 3, 4, 5, 6} : Contains(text_norm, forbidden[k])

_row_has_forbidden_status(text_norm) ==
    \E k \in 1..Len(forbidden) : Contains(text_norm, forbidden[k])

\* the first non-empty normalized text among the given elements, else ""
RECURSIVE FirstText(_)
FirstText(ts) ==
    IF ts = <<>> THEN <<>>
    ELSE LET text == Lower(CollapseSpace(Strip(Head(ts))))
         IN  IF text # <<>> THEN text ELSE FirstText(Tail(ts))

\* a CTA reading that takes every text holding "book" for "book"
_row_cta_text_contains(row) ==
    IF Contains(FirstText(row.ctaDivs \o row.buttons \o row.links), S_book)
    THEN S_book
    ELSE FirstText(row.ctaDivs \o row.buttons \o row.links)

_row_cta_text(row) == FirstText(row.ctaDivs \o row.buttons \o row.links)

\* find_row: text_norm and time_norm of a row's inner text
TextNorm(row) == Strip(CollapseSpace(Lower(InnerText(row))))

TimeNorm(row) == RemoveSpace(TextNorm(row))

\* find_row: the class / studio / time test
RowMatches(row) ==
    /\ Contains(TextNorm(row), S_ys)
    /\ Contains(TextNorm(row), S_flatiron)
    /\ Contains(TimeNorm(row), target_time_token)

\* find_row: the test a row has to pass to be returned
RowAccepted(row) ==
    /\ RowMatches(row)
    /\ ~_row_has_forbidden_status(TextNorm(row))
    /\ _row_cta_text(row) = S_book

\* a filter that takes every text holding "book"
HasTextBook_contains(t) == Contains(Lower(Strip(t)), S_book)

\* filter(has_text=re.compile(r"^\s*BOOK\s*$", re.IGNORECASE))
HasTextBook(t) == Lower(Strip(t)) = S_book

\* the elements the BOOK locator resolves to in a row: the CTA divs, or with
\* the fallback locator "button, div" the CTA divs and the buttons
BookElements(row, fallback) ==
    SelectSeq(IF fallback THEN row.ctaDivs \o row.buttons ELSE row.ctaDivs,
              HasTextBook)

\* book_class_mvp_v3_1: "yoga sculpt" in text and "6:15" in text
MvpMatches(row) ==
    /\ Contains(Lower(InnerText(row)), S_yoga_sculpt)
    /\ Contains(Lower(InnerText(row)), S_615)

\* card.get_by_text("Book"): the elements whose text contains "book"
MvpBookElements(row) ==
    SelectSeq(row.ctaDivs \o row.buttons \o row.links,
              LAMBDA t : Contains(Lower(CollapseSpace(t)), S_book))

\* scripts/scripts: div.session-row-view:has-text('6:15 pm'):has-text('Flatiron')
LegacyMatches(row) ==
    /\ Contains(TextNorm(row), S_615_pm)
    /\ Contains(TextNorm(row), S_flatiron)

\* class_row.locator("div.btn-text:has-text('BOOK')")
LegacyBookElements(row) ==
    SelectSeq(row.ctaDivs, LAMBDA t : Contains(Lower(CollapseSpace(t)), S_book))

\* what the engine learns about each kind of row
RowInfo ==
    [k \in RowKinds |->
        [text_norm |-> TextNorm(RowCat[k]),
         matches   |-> RowMatches(RowCat[k]),
         forbidden |-> _row_has_forbidden_status(TextNorm(RowCat[k])),
         cta_text  |-> _row_cta_text(RowCat[k]),
         accepted  |-> RowAccepted(RowCat[k]),
         book      |-> Len(BookElements(RowCat[k], FALSE)),
         bookAny   |-> Len(BookElements(RowCat[k], TRUE)),
         mvp       |-> MvpMatches(RowCat[k]),
         mvpBook   |-> Len(MvpBookElements(RowCat[k])),
         legacy    |-> LegacyMatches(RowCat[k]),
         legacyBook |-> Len(LegacyBookElements(RowCat[k]))]]

(***************************************************************************)
(* Calendar: a date is a day ordinal; ordinal 0 is Monday, Jan 1 of year 0 *)
(* and every year has 365 days.                                            *)
(***************************************************************************)
MonthStart == <<0, 31, 59, 90, 120, 151, 181, 212, 243, 273, 304, 334>>

YearOf(d) == d \div 365

MonthOf(d) ==
    CHOOSE m \in 1..12 :
        /\ MonthStart[m] <= d % 365
        /\ (m = 12 \/ d % 365 < MonthStart[m + 1])

DomOf(d) == (d % 365) - MonthStart[MonthOf(d)] + 1

\* datetime.weekday(): 0 is Monday
WeekdayOf(d) == d % 7

MkDate(y, m, dd) == y * 365 + MonthStart[m] + dd - 1

\* strftime("%a, %b %d"): weekday, month, zero-padded day
Strftime_a_b_d(d) ==
    [wd |-> WeekdayOf(d), mon |-> MonthOf(d), day |-> DomOf(d), padded |-> DomOf(d) < 10]

\* .replace(" 0", " ")
Unpad(label) == [label EXCEPT !.padded = FALSE]

\* "no date", "no label" and "not counted"
NoDate == 0 - 1

NoCount == 0 - 1

NoLabel == [wd |-> 7, mon |-> 0, day |-> 0, padded |-> FALSE]

(***************************************************************************)
(* State                                                                   *)
(*   cfg     what is fixed for a run: the script variant, "now" and how    *)
(*           the surface renders its calendar                              *)
(*   pc      the engine's position                                         *)
(*   loc     the engine's local variables                                  *)
(*   surf    the surface: selected day, first materialized day of the      *)
(*           strip, rendered rows, cancel dialog                           *)
(*   env     what the surface may still do on its own                      *)
(*   hist    what the engine has read and done so far                      *)
(*   outcome how the run ended                                             *)
(***************************************************************************)
VARIABLES cfg, pc, loc, surf, env, hist, outcome

vars == <<cfg, pc, loc, surf, env, hist, outcome>>

now == cfg.now

\* a target two weeks ahead
target_date_14 == now + DaysAhead + 1

\* main: target_date = datetime.now() + timedelta(days=13)
target_date == now + DaysAhead

\* a decision that books on every day
should_book_always == TRUE

\* main: should_book = weekday in ["Monday", "Tuesday", "Wednesday"]
should_book == WeekdayOf(target_date) \in {0, 1, 2}

\* the ways a surface can render its calendar
Surfaces ==
    { [heading |-> TRUE,  today |-> TRUE,  pager |-> TRUE,  aria |-> TRUE],
      [heading |-> TRUE,  today |-> FALSE, pager |-> FALSE, aria |-> FALSE],
      [heading |-> FALSE, today |-> TRUE,  pager |-> FALSE, aria |-> TRUE] }

\* the session lists a surface can render: no row twice, except that the
\* bookable class may be listed in two rows
RowLists ==
    UNION { { q \in [1..n -> RowKinds] : \A i, j \in 1..n : q[i] = q[j] => i = j }
            : n \in 0..MaxRows }
        \cup { q \in [1..2 -> {1}] : MaxRows >= 2 }

(***************************************************************************)
(* Reading the surface                                                     *)
(***************************************************************************)
Min(a, b) == IF a < b THEN a ELSE b

Max(a, b) == IF a < b THEN b ELSE a

\* the strip shows WinLen days from w, between today and today + StripAhead
ClampWin(w) == Max(now, Min(w, now + StripAhead - WinLen + 1))

InWin(w, d) == w <= d /\ d < w + WinLen

\* the h2 heading "Sat, Feb 28" of the selected day, if the page has one
HeadingText == IF cfg.flav.heading THEN Strftime_a_b_d(surf.sel) ELSE NoLabel

\* strptime("%a, %b %d"), the current year, rollover near the year's ends
_read_selected_schedule_date ==
    IF HeadingText = NoLabel THEN NoDate
    ELSE LET m == HeadingText.mon
             dd == HeadingText.day
             candidate == MkDate(YearOf(now), m, dd)
         IN  IF candidate < now - RolloverDays THEN MkDate(YearOf(now) + 1, m, dd)
             ELSE IF candidate > now + RolloverDays THEN MkDate(YearOf(now) - 1, m, dd)
             ELSE candidate

\* the text of div.days-bar: the selected day
_read_days_bar_label == Strftime_a_b_d(surf.sel)

target_labels == {Strftime_a_b_d(target_date), Unpad(Strftime_a_b_d(target_date))}

_is_target_day_selected ==
    \/ /\ _read_selected_schedule_date # NoDate
       /\ _read_selected_schedule_date = target_date
    \/ _read_days_bar_label \in target_labels

\* an assert that takes any label that could be read
AssertExactOK_any(label) == label # NoLabel

\* _assert_exact_target_day does not raise
AssertExactOK(label) == label # NoLabel /\ label \in target_labels

\* str(a) in str(b), for day numbers
DigitsContain(b, a) ==
    \/ a = b
    \/ a < 10 /\ b >= 10 /\ (b \div 10 = a \/ b % 10 = a)

\* "february 2" in "wednesday, february 21"
AriaContains(d, t) ==
    /\ MonthOf(d) = MonthOf(t)
    /\ \/ DomOf(d) = DomOf(t)
       \/ DomOf(t) < 10 /\ DomOf(d) >= 10 /\ DomOf(d) \div 10 = DomOf(t)

\* a cell of day d is matched by one of _calendar_day_selectors(target)
CellSelected(d) ==
    IF cfg.flav.aria THEN AriaContains(d, target_date) ELSE d = target_date

\* the first letter of the weekday t occurs in the short name of weekday w
InitialIn(w, t) ==
    CASE t = 0 -> w = 0
      [] t \in {1, 3} -> w \in {1, 3, 5}
      [] t = 2 -> w = 2
      [] t = 4 -> w = 4
      [] OTHER -> w \in {5, 6}

\* the text fallback of _calendar_day_visible
CellTextVisible(d) ==
    /\ DigitsContain(DomOf(d), DomOf(target_date))
    /\ InitialIn(WeekdayOf(d), WeekdayOf(target_date))
    /\ cfg.flav.aria
    /\ MonthOf(d) = MonthOf(target_date)

_calendar_day_visible(w) ==
    \E d \in w..(w + WinLen - 1) : CellSelected(d) \/ CellTextVisible(d)

\* the cell _find_calendar_day returns: the first by the strict selectors,
\* else the first whose text holds the day number
_find_calendar_day ==
    LET cells == surf.win..(surf.win + WinLen - 1)
        strict == {d \in cells : CellSelected(d)}
        loose == {d \in cells : DigitsContain(DomOf(d), DomOf(target_date))}
        first(S) == CHOOSE d \in S : \A x \in S : d <= x
    IN  IF strict # {} THEN first(strict)
        ELSE IF loose # {} THEN first(loose)
        ELSE NoDate

_calendar_reset_detected ==
    /\ target_date # now
    /\ cfg.flav.today /\ InWin(surf.win, now)
    /\ cfg.flav.aria
    /\ ~_calendar_day_visible(surf.win)

\* the nodes _wait_for_day_lock looks at: the selected cell and today's
SelectedNodes ==
    {d \in {surf.sel} : InWin(surf.win, d)}
        \cup {d \in {now} : cfg.flav.today /\ InWin(surf.win, d)}

NodeMatches(d) ==
    \/ ~cfg.flav.aria /\ MonthOf(d) = MonthOf(target_date)
                      /\ DomOf(d) = DomOf(target_date)
    \/ cfg.flav.aria /\ DigitsContain(DomOf(d), DomOf(target_date))
                     /\ MonthOf(d) = MonthOf(target_date)

\* _wait_for_day_lock returns instead of raising PlaywrightTimeout
_wait_for_day_lock ==
    _is_target_day_selected \/ \E d \in SelectedNodes : NodeMatches(d)

(***************************************************************************)
(* Moving the calendar                                                     *)
(***************************************************************************)
\* _step_selected_calendar_day: the cell clicked, next to the first of
\* today's cell (.today) and the selected cell that has such a neighbour
StepCell(forward) ==
    LET bases == (IF cfg.flav.today /\ InWin(surf.win, now) THEN <<now>> ELSE <<>>)
                   \o (IF InWin(surf.win, surf.sel) THEN <<surf.sel>> ELSE <<>>)
        sib(b) == IF forward THEN b + 1 ELSE b - 1
        ok == {i \in 1..Len(bases) : InWin(surf.win, sib(bases[i]))}
    IN  IF ok = {} THEN NoDate
        ELSE sib(bases[CHOOSE i \in ok : \A j \in ok : i <= j])

\* _scroll_calendar_strip: the window after scrollBy(+-420)
ScrollWin(forward) ==
    ClampWin(IF forward THEN surf.win + StripScrollPx \div CellPx
             ELSE surf.win - StripScrollPx \div CellPx)

\* up to n moves of the window by days, stopping once the target shows
RECURSIVE Shift(_, _, _)
Shift(w, n, days) ==
    IF n = 0 THEN w
    ELSE LET w2 == ClampWin(w + days)
         IN  IF _calendar_day_visible(w2) THEN w2 ELSE Shift(w2, n - 1, days)

\* _nudge_calendar: paging control, strip scroll, generic scroll; the window
\* it leaves and what it returns
_nudge_calendar(aggressive) ==
    LET w == surf.win
        p == IF cfg.flav.pager THEN Shift(w, IF aggressive THEN 2 ELSE 1, WinLen) ELSE w
        sc == Shift(p, IF aggressive THEN 3 ELSE 1, NudgePx \div CellPx)
        g == ClampWin(sc + NudgePx \div CellPx)
    IN  IF cfg.flav.pager /\ _calendar_day_visible(p) THEN [win |-> p, ok |-> TRUE]
        ELSE IF _calendar_day_visible(sc) THEN [win |-> sc, ok |-> TRUE]
        ELSE IF g # sc THEN [win |-> g, ok |-> _calendar_day_visible(g)]
        ELSE [win |-> sc, ok |-> FALSE]

(***************************************************************************)
(* Control                                                                 *)
(***************************************************************************)
Fail(msg) ==
    /\ pc' = "failed"
    /\ outcome' = [status |-> "failed", msg |-> msg]

\* main's except clauses: the prefix put on the error that ends the run
ErrorWrapper ==
    CASE pc # "failed" -> ""
      [] cfg.variant # "verified" -> ""
      [] loc.phase = "date" -> "Date select error"
      [] OTHER -> "Booking error"

\* enter _select_target_day
CallSelect(l, ret) ==
    [l EXCEPT !.selRet = ret, !.navStep = 0, !.attempt = 0, !.misses = 0, !.nudges = 0]

\* enter _ensure_target_day_locked
CallEnsure(l, ret, retries) ==
    [l EXCEPT !.ensRet = ret, !.ensRetries = retries, !.ensIter = 0]

\* where _select_target_day returns to
SelectReturnPc ==
    CASE loc.selRet = "main" -> "ens"
      [] loc.selRet = "ens_reset" -> "ens_wait"
      [] OTHER -> "ens"

SelectReturnLoc ==
    LET l == [loc EXCEPT !.navStep = 0, !.attempt = 0, !.misses = 0, !.nudges = 0]
    IN  CASE loc.selRet = "main" -> CallEnsure(l, "main", MainRetries)
          [] loc.selRet = "ens_reset" -> l
          [] OTHER -> [l EXCEPT !.ensIter = @ + 1]

SelectReturn ==
    /\ pc' = SelectReturnPc
    /\ loc' = SelectReturnLoc
    /\ hist' = IF loc.selRet = "main" THEN [hist EXCEPT !.selectOK = TRUE] ELSE hist

\* where _ensure_target_day_locked returns to
EnsureReturnPc ==
    CASE loc.ensRet = "main" -> "m_assert"
      [] loc.ensRet = "find" -> "f_assert"
      [] OTHER -> "g_wait"

EnsureReturn ==
    /\ pc' = EnsureReturnPc
    /\ loc' = [loc EXCEPT !.ensIter = 0]
    /\ hist' = IF loc.ensRet = "main" THEN [hist EXCEPT !.lockOK = TRUE] ELSE hist

(***************************************************************************)
(* main: the target date and the booking-day decision                      *)
(***************************************************************************)
Resolve ==
    /\ pc = "start"
    /\ IF should_book
       THEN /\ pc' = CASE cfg.variant = "verified" -> "nav"
                       [] cfg.variant = "mvp" -> "mvp_date"
                       [] OTHER -> "leg_date"
            /\ loc' = CallSelect(loc, "main")
            /\ UNCHANGED outcome
       ELSE /\ pc' = "done"
            /\ outcome' = [status |-> "skipped", msg |-> "not a booking day"]
            /\ UNCHANGED loc
    /\ UNCHANGED <<cfg, surf, env, hist>>

(***************************************************************************)
(* _navigate_calendar_to_target, one iteration of its loop per step        *)
(***************************************************************************)
\* the navigation reports the target reached whatever date it reads
NavReached_any ==
    /\ pc = "nav" /\ loc.navStep < NavMaxSteps
    /\ pc' = "nav_lock"
    /\ UNCHANGED <<cfg, loc, surf, env, hist, outcome>>

NavReached ==
    /\ pc = "nav" /\ loc.navStep < NavMaxSteps
    /\ _read_selected_schedule_date = target_date
    /\ pc' = "nav_lock"
    /\ UNCHANGED <<cfg, loc, surf, env, hist, outcome>>

NavStep ==
    /\ pc = "nav" /\ loc.navStep < NavMaxSteps
    /\ _read_selected_schedule_date # target_date
    /\ LET current == _read_selected_schedule_date
           forward == IF current # NoDate THEN current < target_date ELSE TRUE
           cell == StepCell(forward)
           w == ScrollWin(forward)
           n == _nudge_calendar(FALSE)
       IN  /\ surf' = IF cell # NoDate THEN [surf EXCEPT !.sel = cell]
                      ELSE IF w # surf.win THEN [surf EXCEPT !.win = w]
                      ELSE [surf EXCEPT !.win = n.win]
           /\ hist' = [hist EXCEPT !.navigated = TRUE]
    /\ loc' = [loc EXCEPT !.navStep = @ + 1]
    /\ UNCHANGED <<cfg, pc, env, outcome>>

NavExhausted ==
    /\ pc = "nav" /\ loc.navStep = NavMaxSteps
    /\ pc' = "att"
    /\ UNCHANGED <<cfg, loc, surf, env, hist, outcome>>

(***************************************************************************)
(* _select_target_day                                                      *)
(***************************************************************************)
\* the deterministic navigation reached the day: wait for the lock, return
SelectNavDone ==
    /\ pc = "nav_lock"
    /\ SelectReturn
    /\ UNCHANGED <<cfg, surf, env, outcome>>

\* an attempt counts the target day as not visible without nudging
SelectNudge_idle ==
    /\ pc = "att" /\ loc.attempt < SelectAttempts
    /\ \E visible \in BOOLEAN : _find_calendar_day = NoDate \/ ~visible
    /\ loc' = [loc EXCEPT !.attempt = @ + 1, !.misses = @ + 1]
    /\ hist' = [hist EXCEPT !.navigated = TRUE]
    /\ UNCHANGED <<cfg, pc, surf, env, outcome>>

\* an attempt finds no cell of the day, or only cells that are not visible
\* yet (candidate.is_visible() is false): nudge and try again
SelectNudge ==
    /\ pc = "att" /\ loc.attempt < SelectAttempts
    /\ \E visible \in BOOLEAN : _find_calendar_day = NoDate \/ ~visible
    /\ surf' = [surf EXCEPT !.win = _nudge_calendar(TRUE).win]
    /\ loc' = [loc EXCEPT !.attempt = @ + 1, !.misses = @ + 1, !.nudges = @ + 1]
    /\ hist' = [hist EXCEPT !.navigated = TRUE]
    /\ UNCHANGED <<cfg, pc, env, outcome>>

\* an attempt clicks the cell it found, or fails to and nudges
SelectClick ==
    /\ pc = "att" /\ loc.attempt < SelectAttempts
    /\ _find_calendar_day # NoDate
    /\ \E clicked \in BOOLEAN :
          IF clicked
          THEN /\ surf' = [surf EXCEPT !.sel = _find_calendar_day]
               /\ pc' = "att_check"
               /\ UNCHANGED loc
          ELSE /\ surf' = [surf EXCEPT !.win = _nudge_calendar(TRUE).win]
               /\ loc' = [loc EXCEPT !.attempt = @ + 1, !.nudges = @ + 1]
               /\ UNCHANGED pc
    /\ hist' = [hist EXCEPT !.navigated = TRUE]
    /\ UNCHANGED <<cfg, env, outcome>>

\* after the click: reset to today or no lock, nudge and try again
SelectRetry ==
    /\ pc = "att_check"
    /\ _calendar_reset_detected \/ ~_wait_for_day_lock
    /\ surf' = [surf EXCEPT !.win = _nudge_calendar(TRUE).win]
    /\ loc' = [loc EXCEPT !.attempt = @ + 1, !.nudges = @ + 1]
    /\ pc' = "att"
    /\ UNCHANGED <<cfg, env, hist, outcome>>

\* after the click: the day is locked, return
SelectLocked ==
    /\ pc = "att_check"
    /\ ~_calendar_reset_detected /\ _wait_for_day_lock
    /\ SelectReturn
    /\ UNCHANGED <<cfg, surf, env, outcome>>

\* the attempts never run out: the loop starts over
SelectRaise_retry ==
    /\ pc = "att" /\ loc.attempt = SelectAttempts
    /\ pc' = "nav"
    /\ loc' = [loc EXCEPT !.navStep = 0, !.attempt = 0]
    /\ UNCHANGED <<cfg, surf, env, hist, outcome>>

\* the attempts ran out and the function returns as if the day were selected
SelectRaise_proceed ==
    /\ pc = "att" /\ loc.attempt = SelectAttempts
    /\ pc' = SelectReturnPc
    /\ loc' = SelectReturnLoc
    /\ UNCHANGED <<cfg, surf, env, hist, outcome>>

\* raise RuntimeError("Unable to stabilize calendar on ...")
SelectRaise ==
    /\ pc = "att" /\ loc.attempt = SelectAttempts
    /\ Fail("Unable to stabilize calendar")
    /\ UNCHANGED <<cfg, loc, surf, env, hist>>

(***************************************************************************)
(* _ensure_target_day_locked                                               *)
(***************************************************************************)
EnsureSelected ==
    /\ pc = "ens" /\ loc.ensIter < loc.ensRetries
    /\ _is_target_day_selected
    /\ EnsureReturn
    /\ UNCHANGED <<cfg, surf, env, outcome>>

\* the calendar jumped to today: restore the target date
EnsureReset ==
    /\ pc = "ens" /\ loc.ensIter < loc.ensRetries
    /\ ~_is_target_day_selected
    /\ _calendar_reset_detected
    /\ pc' = "nav"
    /\ loc' = CallSelect(loc, "ens_reset")
    /\ hist' = IF loc.ensRet = "guard" THEN [hist EXCEPT !.gReselect = TRUE] ELSE hist
    /\ UNCHANGED <<cfg, surf, env, outcome>>

EnsureNoReset ==
    /\ pc = "ens" /\ loc.ensIter < loc.ensRetries
    /\ ~_is_target_day_selected
    /\ ~_calendar_reset_detected
    /\ pc' = "ens_wait"
    /\ UNCHANGED <<cfg, loc, surf, env, hist, outcome>>

EnsureLocked ==
    /\ pc = "ens_wait"
    /\ _wait_for_day_lock
    /\ EnsureReturn
    /\ UNCHANGED <<cfg, surf, env, outcome>>

\* the lock is lost: reselect the target date
EnsureTimeout ==
    /\ pc = "ens_wait"
    /\ ~_wait_for_day_lock
    /\ pc' = "nav"
    /\ loc' = CallSelect(loc, "ens_timeout")
    /\ hist' = IF loc.ensRet = "guard" THEN [hist EXCEPT !.gReselect = TRUE] ELSE hist
    /\ UNCHANGED <<cfg, surf, env, outcome>>

\* raise RuntimeError("Target date lock could not be maintained.")
EnsureRaise ==
    /\ pc = "ens" /\ loc.ensIter = loc.ensRetries
    /\ Fail("Target date lock could not be maintained")
    /\ UNCHANGED <<cfg, loc, surf, env, hist>>

(***************************************************************************)
(* main: pick date + scroll-lock                                           *)
(***************************************************************************)
\* _assert_exact_target_day after the date is selected and locked
MainAssert ==
    /\ pc = "m_assert"
    /\ IF AssertExactOK(_read_days_bar_label)
       THEN /\ pc' = "prime"
            /\ hist' = [hist EXCEPT !.assertOK = TRUE]
            /\ UNCHANGED outcome
       ELSE /\ Fail("Active day mismatch")
            /\ UNCHANGED hist
    /\ UNCHANGED <<cfg, loc, surf, env>>

\* _prime_session_scroll: the list of the selected day is rendered
Prime ==
    /\ pc = "prime"
    /\ \E q \in RowLists : surf' = [surf EXCEPT !.rows = q]
    /\ pc' = "f_top"
    /\ loc' = [loc EXCEPT !.phase = "find", !.fAttempt = 0]
    /\ UNCHANGED <<cfg, env, hist, outcome>>

(***************************************************************************)
(* find_row                                                                *)
(***************************************************************************)
\* the top of a pass: re-lock the day on every fourth pass or when it is lost
FindTop ==
    /\ pc = "f_top" /\ loc.fAttempt < FindAttempts
    /\ IF loc.fAttempt % 4 = 0 \/ ~_is_target_day_selected
       THEN /\ pc' = "ens"
            /\ loc' = CallEnsure(loc, "find", FindRetries)
       ELSE /\ pc' = "f_assert"
            /\ UNCHANGED loc
    /\ hist' = [hist EXCEPT !.passLabel = NoLabel]
    /\ UNCHANGED <<cfg, surf, env, outcome>>

\* _assert_exact_target_day of the pass, then rows.count()
FindAssert ==
    /\ pc = "f_assert"
    /\ hist' = [hist EXCEPT !.passLabel = _read_days_bar_label,
                            !.scanned = @ \/ AssertExactOK(_read_days_bar_label)]
    /\ IF AssertExactOK(_read_days_bar_label)
       THEN /\ pc' = "f_scan"
            /\ loc' = [loc EXCEPT !.fIdx = 1, !.fCount = Len(surf.rows)]
            /\ UNCHANGED outcome
       ELSE /\ Fail("Active day mismatch")
            /\ UNCHANGED loc
    /\ UNCHANGED <<cfg, surf, env>>

\* no row left in the pass: scroll the list and start the next pass
FindScroll ==
    /\ pc = "f_scan" /\ loc.fIdx > loc.fCount
    /\ pc' = "f_top"
    /\ loc' = [loc EXCEPT !.fAttempt = @ + 1, !.fIdx = 0, !.fCount = 0]
    /\ UNCHANGED <<cfg, surf, env, hist, outcome>>

\* rows.nth(i).inner_text() is read (a row that is gone raises, and the
\* except continues): not the class, or a forbidden status: the next row
FindSkip ==
    /\ pc = "f_scan" /\ loc.fIdx <= loc.fCount
    /\ IF loc.fIdx > Len(surf.rows) THEN TRUE
       ELSE \/ ~RowInfo[surf.rows[loc.fIdx]].matches
            \/ RowInfo[surf.rows[loc.fIdx]].forbidden
    /\ loc' = [loc EXCEPT !.fIdx = @ + 1]
    /\ UNCHANGED <<cfg, pc, surf, env, hist, outcome>>

\* rows.nth(i).inner_text() is read: the class, without a forbidden status
FindMatch ==
    /\ pc = "f_scan" /\ loc.fIdx <= loc.fCount
    /\ loc.fIdx <= Len(surf.rows)
    /\ RowInfo[surf.rows[loc.fIdx]].matches
    /\ ~RowInfo[surf.rows[loc.fIdx]].forbidden
    /\ pc' = "f_cta"
    /\ loc' = [loc EXCEPT !.textKind = surf.rows[loc.fIdx]]
    /\ UNCHANGED <<cfg, surf, env, hist, outcome>>

\* _row_cta_text(rows.nth(i)) of the row the locator resolves to now
CtaRead ==
    IF loc.fIdx > Len(surf.rows) THEN <<>> ELSE RowInfo[surf.rows[loc.fIdx]].cta_text

\* the CTA is not "book": the next row
FindCtaSkip ==
    /\ pc = "f_cta"
    /\ CtaRead # S_book
    /\ pc' = "f_scan"
    /\ loc' = [loc EXCEPT !.fIdx = @ + 1, !.textKind = 0]
    /\ UNCHANGED <<cfg, surf, env, hist, outcome>>

\* the CTA is "book": return rows.nth(i)
FindReturn ==
    /\ pc = "f_cta"
    /\ CtaRead = S_book
    /\ pc' = "c_locate"
    /\ loc' = [loc EXCEPT !.phase = "commit", !.row = loc.fIdx,
                          !.fAttempt = 0, !.fIdx = 0, !.fCount = 0, !.textKind = 0]
    /\ hist' = [hist EXCEPT !.found = loc.textKind,
                            !.foundCta = surf.rows[loc.fIdx],
                            !.foundLabel = hist.passLabel]
    /\ UNCHANGED <<cfg, surf, env, outcome>>

\* find_row returns None: raise RuntimeError("Target class not found ...")
FindNone ==
    /\ pc = "f_top" /\ loc.fAttempt = FindAttempts
    /\ Fail("Target class not found on target date")
    /\ UNCHANGED <<cfg, loc, surf, env, hist>>

(***************************************************************************)
(* main: the guarded BOOK click                                            *)
(***************************************************************************)
\* the elements the BOOK locator of the matched row resolves to now
BookCount ==
    IF loc.row > Len(surf.rows) THEN 0
    ELSE IF loc.bookFallback THEN RowInfo[surf.rows[loc.row]].bookAny
    ELSE RowInfo[surf.rows[loc.row]].book

\* row.scroll_into_view_if_needed() and the choice of the BOOK locator
Locate ==
    /\ pc = "c_locate"
    /\ IF loc.row > Len(surf.rows)
       THEN /\ Fail("Booking error")
            /\ UNCHANGED loc
       ELSE /\ pc' = "g_assert1"
            /\ loc' = [loc EXCEPT !.bookFallback = (RowInfo[surf.rows[loc.row]].book = 0)]
            /\ UNCHANGED outcome
    /\ UNCHANGED <<cfg, surf, env, hist>>

\* _assert_target_day_before_book: the first _assert_exact_target_day
GuardAssert ==
    /\ pc = "g_assert1"
    /\ hist' = [hist EXCEPT !.gLabel1 = _read_days_bar_label, !.guards = Min(@ + 1, 2)]
    /\ IF AssertExactOK(_read_days_bar_label)
       THEN /\ pc' = "ens"
            /\ loc' = CallEnsure(loc, "guard", GuardRetries)
            /\ UNCHANGED outcome
       ELSE /\ Fail("Active day mismatch")
            /\ UNCHANGED loc
    /\ UNCHANGED <<cfg, surf, env>>

\* _assert_target_day_before_book: _wait_for_day_lock(timeout=2000)
GuardWait ==
    /\ pc = "g_wait"
    /\ IF _wait_for_day_lock
       THEN pc' = "g_assert2" /\ UNCHANGED outcome
       ELSE Fail("Target day assertion failed immediately before BOOK click")
    /\ UNCHANGED <<cfg, loc, surf, env, hist>>

\* _assert_target_day_before_book: the second _assert_exact_target_day
GuardAssertAgain ==
    /\ pc = "g_assert2"
    /\ hist' = [hist EXCEPT !.gLabel2 = _read_days_bar_label]
    /\ IF AssertExactOK(_read_days_bar_label)
       THEN pc' = "c_modal1" /\ UNCHANGED outcome
       ELSE Fail("Active day mismatch")
    /\ UNCHANGED <<cfg, loc, surf, env>>

_cancel_modal_present == surf.modal = "open"

\* _dismiss_cancel_modal_safe: click KEEP RESERVATION if it is there
_dismiss_cancel_modal_safe ==
    IF _cancel_modal_present /\ surf.keepVis THEN [surf EXCEPT !.modal = "kept"] ELSE surf

\* a commit that goes on to the click with the cancel dialog open
ModalBefore_ignore ==
    /\ pc = "c_modal1"
    /\ pc' = "c_exec"
    /\ UNCHANGED <<cfg, loc, surf, env, hist, outcome>>

\* the cancel dialog is checked before the click
ModalBefore ==
    /\ pc = "c_modal1"
    /\ IF _cancel_modal_present
       THEN /\ surf' = _dismiss_cancel_modal_safe
            /\ hist' = [hist EXCEPT !.modalSeen = TRUE,
                                    !.keepClicked = (surf'.modal = "kept")]
            /\ Fail("Cancel modal was already open before booking click")
       ELSE /\ pc' = "c_exec"
            /\ UNCHANGED <<surf, hist, outcome>>
    /\ UNCHANGED <<cfg, loc, env>>

\* dry run, or book.count().  EXECUTE_BOOKING comes from the process
\* environment and is drawn here, where main first uses it.
Execute ==
    /\ pc = "c_exec"
    /\ \E execute_booking \in BOOLEAN :
          IF ~execute_booking
          THEN /\ pc' = "done"
               /\ outcome' = [status |-> "completed", msg |-> "Dry run complete"]
               /\ UNCHANGED hist
          ELSE /\ hist' = [hist EXCEPT !.gBook = BookCount,
                                       !.gKind = IF loc.row > Len(surf.rows) THEN 0
                                                 ELSE surf.rows[loc.row]]
               /\ IF BookCount = 0
                  THEN Fail("Exact 'BOOK' CTA not found on matched row")
                  ELSE pc' = "c_click" /\ UNCHANGED outcome
    /\ UNCHANGED <<cfg, loc, surf, env>>

\* a click that is issued again: the engine stays at the click
Click_again ==
    /\ pc = "c_click" /\ BookCount > 0
    /\ hist' = [hist EXCEPT !.clicks = @ + 1]
    /\ UNCHANGED <<cfg, pc, loc, surf, env, outcome>>

\* book.evaluate("el => el.click()")
Click ==
    /\ pc = "c_click"
    /\ IF BookCount = 0
       THEN /\ Fail("BOOK click failed")
            /\ UNCHANGED hist
       ELSE /\ pc' = "c_modal2"
            /\ hist' = [hist EXCEPT !.clicks = @ + 1,
                                    !.clickKind = surf.rows[loc.row],
                                    !.clickSel = surf.sel]
            /\ UNCHANGED outcome
    /\ UNCHANGED <<cfg, loc, surf, env>>

\* the cancel dialog is checked 800 ms after the click
ModalAfter ==
    /\ pc = "c_modal2"
    /\ IF _cancel_modal_present
       THEN /\ surf' = _dismiss_cancel_modal_safe
            /\ hist' = [hist EXCEPT !.modalSeen = TRUE,
                                    !.keepClicked = (surf'.modal = "kept")]
            /\ Fail("Cancel modal appeared after click; reservation preserved")
       ELSE /\ pc' = "c_ok"
            /\ UNCHANGED <<surf, hist, outcome>>
    /\ UNCHANGED <<cfg, loc, env>>

\* print("Clicked BOOK button."), print("Flow completed.")
Report ==
    /\ pc = "c_ok"
    /\ pc' = "done"
    /\ outcome' = [status |-> "completed", msg |-> "Clicked BOOK button"]
    /\ UNCHANGED <<cfg, loc, surf, env, hist>>

(***************************************************************************)
(* scripts/book_class_mvp_v3_1.py                                          *)
(***************************************************************************)
\* the day cells whose text contains str(target.day)
DayTextCells ==
    {d \in now..(now + StripAhead) : DigitsContain(DomOf(d), DomOf(target_date))}

\* page.locator("button:has-text(day_str)").first.click(timeout=5000)
MvpDate ==
    /\ pc = "mvp_date"
    /\ hist' = [hist EXCEPT !.navigated = TRUE]
    /\ \E rendered \in BOOLEAN :
          IF rendered /\ DayTextCells # {}
          THEN /\ surf' = [surf EXCEPT
                        !.sel = CHOOSE d \in DayTextCells : \A e \in DayTextCells : d <= e]
               /\ pc' = "mvp_scan"
               /\ UNCHANGED outcome
          ELSE /\ Fail("Playwright timeout")
               /\ UNCHANGED surf
    /\ UNCHANGED <<cfg, loc, env>>

\* the loop over div.class-card
MvpScan ==
    /\ pc = "mvp_scan"
    /\ \E q \in RowLists :
          LET hits == {i \in 1..Len(q) : RowInfo[q[i]].mvp}
          IN  /\ surf' = [surf EXCEPT !.rows = q]
              /\ hist' = [hist EXCEPT !.scanned = TRUE]
              /\ IF hits = {}
                 THEN /\ pc' = "done"
                      /\ outcome' = [status |-> "completed", msg |-> "No matching class found"]
                      /\ UNCHANGED loc
                 ELSE /\ pc' = "mvp_book"
                      /\ loc' = [loc EXCEPT !.row = CHOOSE i \in hits : \A j \in hits : i <= j]
                      /\ UNCHANGED outcome
    /\ UNCHANGED <<cfg, env>>

\* card.get_by_text("Book").first.click(timeout=5000)
MvpBook ==
    /\ pc = "mvp_book"
    /\ IF RowInfo[surf.rows[loc.row]].mvpBook = 0
       THEN /\ Fail("Playwright timeout")
            /\ UNCHANGED hist
       ELSE /\ hist' = [hist EXCEPT !.clicks = @ + 1,
                                    !.clickKind = surf.rows[loc.row],
                                    !.clickSel = surf.sel]
            /\ pc' = "mvp_reserve"
            /\ UNCHANGED outcome
    /\ UNCHANGED <<cfg, loc, surf, env>>

\* page.get_by_text("Reserve My Spot").first.click(timeout=10000)
MvpReserve ==
    /\ pc = "mvp_reserve"
    /\ pc' = "done"
    /\ \E shown \in BOOLEAN :
          outcome' = [status |-> "completed",
                      msg |-> IF shown THEN "Booking completed successfully"
                              ELSE "Could not click 'Reserve My Spot'"]
    /\ UNCHANGED <<cfg, loc, surf, env, hist>>

(***************************************************************************)
(* scripts/scripts/book_class_verified_functional.py                       *)
(***************************************************************************)
\* page.locator("div.cal-date:has-text(day_num)").last, clicked inside try
LegacyDate ==
    /\ pc = "leg_date"
    /\ hist' = [hist EXCEPT !.navigated = TRUE]
    /\ \E rendered \in BOOLEAN, q \in RowLists :
          surf' = IF rendered /\ DayTextCells # {}
                  THEN [surf EXCEPT
                          !.sel = CHOOSE d \in DayTextCells : \A e \in DayTextCells : e <= d,
                          !.rows = q]
                  ELSE [surf EXCEPT !.rows = q]
    /\ loc' = [loc EXCEPT !.fAttempt = 0]
    /\ pc' = "leg_scroll"
    /\ UNCHANGED <<cfg, env, outcome>>

\* the rows the legacy locator resolves to
LegacyHits == {i \in 1..Len(surf.rows) : RowInfo[surf.rows[i]].legacy}

\* for _ in range(20): the row is not there yet, page.mouse.wheel(0, 800)
LegacyScroll ==
    /\ pc = "leg_scroll"
    /\ loc.fAttempt < LegacyScrolls
    /\ LegacyHits = {}
    /\ loc' = [loc EXCEPT !.fAttempt = @ + 1]
    /\ hist' = [hist EXCEPT !.scanned = TRUE]
    /\ UNCHANGED <<cfg, pc, surf, env, outcome>>

\* the loop ends: found, or twenty scrolls without the row
LegacyScrolled ==
    /\ pc = "leg_scroll"
    /\ hist' = [hist EXCEPT !.scanned = TRUE]
    /\ IF loc.fAttempt < LegacyScrolls /\ LegacyHits # {}
       THEN /\ pc' = "leg_book"
            /\ loc' = [loc EXCEPT !.row = CHOOSE i \in LegacyHits : \A j \in LegacyHits : j <= i]
            /\ UNCHANGED outcome
       ELSE /\ loc.fAttempt = LegacyScrolls
            /\ pc' = "done"
            /\ outcome' = [status |-> "completed", msg |-> "Could not find class after scrolling"]
            /\ UNCHANGED loc
    /\ UNCHANGED <<cfg, surf, env>>

\* book_button.click(), inside try: a missing button is reported, not raised
LegacyBook ==
    /\ pc = "leg_book"
    /\ IF RowInfo[surf.rows[loc.row]].legacyBook = 0
       THEN /\ pc' = "done"
            /\ outcome' = [status |-> "completed", msg |-> "Error clicking class/book button"]
            /\ UNCHANGED hist
       ELSE /\ hist' = [hist EXCEPT !.clicks = @ + 1,
                                    !.clickKind = surf.rows[loc.row],
                                    !.clickSel = surf.sel]
            /\ pc' = "leg_confirm"
            /\ UNCHANGED outcome
    /\ UNCHANGED <<cfg, loc, surf, env>>

\* page.locator("button:has-text(\"I'm done\")").is_visible()
LegacyConfirm ==
    /\ pc = "leg_confirm"
    /\ pc' = "done"
    /\ \E popup \in BOOLEAN :
          /\ outcome' = [status |-> "completed",
                         msg |-> IF popup THEN "Booking confirmed"
                                 ELSE "BOOK clicked but no confirmation popup found"]
          /\ hist' = [hist EXCEPT !.confirmed = popup]
    /\ UNCHANGED <<cfg, loc, surf, env>>

(***************************************************************************)
(* The surface on its own                                                  *)
(***************************************************************************)
Running == pc \notin {"start", "done", "failed"}

\* the engine is inside the initial _select_target_day
MidNavigation ==
    /\ loc.phase = "date" /\ loc.selRet = "main" /\ ~hist.selectOK
    /\ pc \in {"nav", "nav_lock", "att", "att_check"}

\* the calendar snaps back to today
SnapBack ==
    /\ Running /\ cfg.variant = "verified"
    /\ env.eventsLeft > 0
    /\ loc.fAttempt < DriftPasses
    /\ surf.sel # now
    /\ surf' = [surf EXCEPT !.sel = now, !.win = now]
    /\ env' = [env EXCEPT !.eventsLeft = @ - 1, !.drifted = TRUE,
                           !.navDrift = MidNavigation]
    /\ UNCHANGED <<cfg, pc, loc, hist, outcome>>

\* the session list renders other rows.  The script reads the rows in
\* find_row's pass (rows.count(), rows.nth(i)) and in the commit
\* (row.locator, book.count(), book.click()); a re-render at any earlier
\* moment is the same as one just before the next of these reads.
Rerender ==
    /\ cfg.variant = "verified"
    /\ pc \in {"f_assert", "f_scan", "f_cta", "c_locate", "c_exec", "c_click"}
    /\ env.eventsLeft > 0
    /\ \E q \in RowLists \ {surf.rows} : surf' = [surf EXCEPT !.rows = q]
    /\ env' = [env EXCEPT !.eventsLeft = @ - 1]
    /\ UNCHANGED <<cfg, pc, loc, hist, outcome>>

\* the cancel-reservation dialog opens: before the first check of the
\* commit, before or after the click, or after the last check
ModalOpens ==
    /\ cfg.variant = "verified"
    /\ pc \in {"c_modal1", "c_exec", "c_click", "c_modal2", "c_ok"}
    /\ env.eventsLeft > 0
    /\ surf.modal = "none"
    /\ \E kv \in BOOLEAN : surf' = [surf EXCEPT !.modal = "open", !.keepVis = kv]
    /\ env' = [env EXCEPT !.eventsLeft = @ - 1]
    /\ hist' = [hist EXCEPT !.modalOpened = TRUE]
    /\ UNCHANGED <<cfg, pc, loc, outcome>>

(***************************************************************************)
(* Specification                                                           *)
(***************************************************************************)
NowDays == MkDate(0, 2, 15)..(MkDate(0, 2, 15) + NowCount - 1)

Init ==
    /\ cfg \in [variant : {"verified", "mvp", "legacy"}, now : NowDays, flav : Surfaces]
    /\ pc = "start"
    /\ loc = [phase |-> "date", selRet |-> "main", ensRet |-> "main",
              ensRetries |-> 0, ensIter |-> 0, navStep |-> 0, attempt |-> 0,
              fAttempt |-> 0, fIdx |-> 0, fCount |-> 0, textKind |-> 0, row |-> 0,
              bookFallback |-> FALSE, misses |-> 0, nudges |-> 0]
    /\ surf = [sel |-> cfg.now, win |-> cfg.now, rows |-> <<>>,
               modal |-> "none", keepVis |-> FALSE]
    /\ env = [eventsLeft |-> MaxEvents, drifted |-> FALSE, navDrift |-> FALSE]
    /\ hist = [navigated |-> FALSE, scanned |-> FALSE, clicks |-> 0,
               clickKind |-> 0, clickSel |-> NoDate,
               selectOK |-> FALSE, lockOK |-> FALSE, assertOK |-> FALSE,
               passLabel |-> NoLabel, found |-> 0, foundCta |-> 0,
               foundLabel |-> NoLabel,
               gLabel1 |-> NoLabel, gLabel2 |-> NoLabel, gBook |-> NoCount, gKind |-> 0, guards |-> 0,
               gReselect |-> FALSE,
               modalOpened |-> FALSE, modalSeen |-> FALSE, keepClicked |-> FALSE,
               confirmed |-> FALSE]
    /\ outcome = [status |-> "running", msg |-> ""]

Next ==
    \/ Resolve
    \/ MvpDate \/ MvpScan \/ MvpBook \/ MvpReserve
    \/ LegacyDate \/ LegacyScroll \/ LegacyScrolled \/ LegacyBook \/ LegacyConfirm
    \/ NavReached \/ NavStep \/ NavExhausted
    \/ SelectNavDone \/ SelectNudge \/ SelectClick \/ SelectRetry
    \/ SelectLocked \/ SelectRaise
    \/ EnsureSelected \/ EnsureReset \/ EnsureNoReset \/ EnsureLocked
    \/ EnsureTimeout \/ EnsureRaise
    \/ MainAssert \/ Prime
    \/ FindTop \/ FindAssert \/ FindScroll \/ FindSkip \/ FindMatch \/ FindCtaSkip \/ FindReturn \/ FindNone
    \/ Locate \/ GuardAssert \/ GuardWait \/ GuardAssertAgain
    \/ ModalBefore \/ Execute \/ Click \/ ModalAfter \/ Report
    \/ SnapBack \/ Rerender \/ ModalOpens

Spec == Init /\ [][Next]_vars

\* the scripts are straight-line asyncio programs: whenever a step can be
\* taken, one is taken
FairSpec == Spec /\ WF_vars(Next)

(***************************************************************************)
(* The date resolver of book_class_mvp_v3_1.py on its own: _target_date    *)
(* applied to a "today" and a days_ahead offset of either sign.            *)
(***************************************************************************)
MaxOffset == 14

ResolverDays == 7

\* datetime.now().date() + timedelta(days=days_ahead)
_target_date(today, days_ahead) == today + days_ahead

\* main: weekday in valid_days, the weekday being that of the target
valid_days == {0, 1, 2}

weekday_valid(target) == WeekdayOf(target) \in valid_days

ResolverInit ==
    /\ cfg \in [variant : {"mvp"},
                now : MkDate(0, 2, 15)..(MkDate(0, 2, 15) + ResolverDays - 1),
                days_ahead : (0 - MaxOffset)..MaxOffset]
    /\ pc = "start"
    /\ loc = [phase |-> "resolve"]
    /\ surf = [sel |-> cfg.now, win |-> cfg.now, rows |-> <<>>,
               modal |-> "none", keepVis |-> FALSE]
    /\ env = [eventsLeft |-> 0, drifted |-> FALSE, navDrift |-> FALSE]
    /\ hist = [navigated |-> FALSE, scanned |-> FALSE, clicks |-> 0,
               date2 |-> NoDate, book2 |-> FALSE]
    /\ outcome = [status |-> "running", msg |-> "", date |-> NoDate, book |-> FALSE]

\* target = _target_date(days_ahead): the function returns a date for every
\* offset; it has no branch that rejects one
ResolveTarget ==
    /\ pc = "start"
    /\ pc' = "done"
    /\ outcome' = [status |-> "resolved", msg |-> "",
                   date |-> _target_date(cfg.now, cfg.days_ahead),
                   book |-> weekday_valid(_target_date(cfg.now, cfg.days_ahead))]
    /\ UNCHANGED <<cfg, loc, surf, env, hist>>

\* a second run whose clock reads the next day
ResolveAgain_next_day ==
    /\ pc = "done"
    /\ pc' = "twice"
    /\ hist' = [hist EXCEPT !.date2 = _target_date(cfg.now + 1, cfg.days_ahead),
                            !.book2 = weekday_valid(_target_date(cfg.now + 1, cfg.days_ahead))]
    /\ UNCHANGED <<cfg, loc, surf, env, outcome>>

\* the resolver run a second time with the same inputs and the same "now"
ResolveAgain ==
    /\ pc = "done"
    /\ pc' = "twice"
    /\ hist' = [hist EXCEPT !.date2 = _target_date(cfg.now, cfg.days_ahead),
                            !.book2 = weekday_valid(_target_date(cfg.now, cfg.days_ahead))]
    /\ UNCHANGED <<cfg, loc, surf, env, outcome>>

ResolverNext == ResolveTarget \/ ResolveAgain

ResolverSpec == ResolverInit /\ [][ResolverNext]_vars

(***************************************************************************)
(* _wait_for_session_reload on its own, called by                          *)
(* _navigate_calendar_to_target (timeout 5000 ms) and by _select_target_day *)
(* (timeout 9000 ms): the poll loop, one iteration per step, over a        *)
(* container that is visible or not at each poll.  Times are milliseconds. *)
(***************************************************************************)
PollMs == 150

SettleMs == 600

ReloadCallers ==
    { [caller |-> "_navigate_calendar_to_target", timeout_ms |-> 5000],
      [caller |-> "_select_target_day", timeout_ms |-> 9000] }

\* _any_visible(): one of the two containers is attached and visible
_any_visible == surf.visible

ReloadInit ==
    /\ cfg \in ReloadCallers
    /\ pc = "poll"
    /\ loc = [elapsed |-> 0, saw_blank |-> FALSE]
    /\ surf \in [visible : BOOLEAN]
    /\ env = [eventsLeft |-> 0, drifted |-> FALSE, navDrift |-> FALSE]
    /\ hist = [blankPolls |-> 0, visibleAfterBlank |-> FALSE, polls |-> 0]
    /\ outcome = [status |-> "running", msg |-> "", result |-> FALSE]

\* one iteration of `while True`: return True for a visible container once
\* a blank was seen or 0.6 s have passed; else note a blank, wait 150 ms
ReloadPoll ==
    /\ pc = "poll" /\ loc.elapsed < cfg.timeout_ms
    /\ LET visible == _any_visible
       IN  IF visible /\ (loc.saw_blank \/ loc.elapsed > SettleMs)
           THEN /\ pc' = "returned"
                /\ outcome' = [status |-> "returned", msg |-> "", result |-> TRUE]
                /\ hist' = [hist EXCEPT !.polls = @ + 1,
                                        !.visibleAfterBlank = (hist.blankPolls > 0)]
                /\ UNCHANGED <<loc, surf>>
           ELSE /\ loc' = [elapsed |-> loc.elapsed + PollMs,
                           saw_blank |-> loc.saw_blank \/ ~visible]
                /\ hist' = [hist EXCEPT !.polls = @ + 1,
                                        !.blankPolls = IF visible THEN @ ELSE 1]
                /\ \E v \in BOOLEAN : surf' = [visible |-> v]
                /\ UNCHANGED <<pc, outcome>>
    /\ UNCHANGED <<cfg, env>>

\* the loop breaks at the timeout: return _any_visible()
ReloadTimeout ==
    /\ pc = "poll" /\ loc.elapsed >= cfg.timeout_ms
    /\ pc' = "returned"
    /\ outcome' = [status |-> "returned", msg |-> "", result |-> _any_visible]
    /\ hist' = [hist EXCEPT !.visibleAfterBlank = (hist.blankPolls > 0 /\ _any_visible)]
    /\ UNCHANGED <<cfg, loc, surf, env>>

\* a caller that gives up when no reload was observed
ReloadResume_fatal ==
    /\ pc = "returned"
    /\ pc' = IF outcome.result THEN "resumed" ELSE "failed"
    /\ outcome' = [outcome EXCEPT !.status = IF outcome.result THEN "resumed" ELSE "failed"]
    /\ UNCHANGED <<cfg, loc, surf, env, hist>>

\* the caller goes on: _navigate_calendar_to_target drops the value and
\* takes its next step, _select_target_day keeps it for a print only
ReloadResume ==
    /\ pc = "returned"
    /\ pc' = "resumed"
    /\ outcome' = [outcome EXCEPT !.status = "resumed"]
    /\ UNCHANGED <<cfg, loc, surf, env, hist>>

ReloadNext == ReloadPoll \/ ReloadTimeout \/ ReloadResume

ReloadSpec == ReloadInit /\ [][ReloadNext]_vars

(***************************************************************************)
(* The drift checks on their own: _is_target_day_selected,                 *)
(* _wait_for_day_lock and _calendar_reset_detected applied to a calendar   *)
(* with any day selected, from the day before the target to DetectSpan     *)
(* days after it, or today; the strip shows the week from today, the week  *)
(* from the selected day or the week ending with it.                       *)
(***************************************************************************)
DetectDays == 3

DetectSpan == 22

DetectInit ==
    /\ cfg \in [variant : {"verified"},
                now : MkDate(0, 2, 15)..(MkDate(0, 2, 15) + DetectDays - 1),
                flav : Surfaces]
    /\ pc = "start"
    /\ loc = [phase |-> "detect"]
    /\ \E sel \in {now} \cup ((target_date - 1)..(target_date + DetectSpan)) :
          \E win \in {now, sel, sel - (WinLen - 1)} :
             surf = [sel |-> sel, win |-> win, rows |-> <<>>,
                     modal |-> "none", keepVis |-> FALSE]
    /\ env = [eventsLeft |-> 0, drifted |-> FALSE, navDrift |-> FALSE]
    /\ hist = [navigated |-> FALSE, scanned |-> FALSE, clicks |-> 0]
    /\ outcome = [status |-> "running", msg |-> "",
                  selected |-> FALSE, lock |-> FALSE, reset |-> FALSE]

\* the three checks applied to the calendar as it is
Detect ==
    /\ pc = "start"
    /\ pc' = "checked"
    /\ outcome' = [status |-> "checked", msg |-> "",
                   selected |-> _is_target_day_selected,
                   lock |-> _wait_for_day_lock,
                   reset |-> _calendar_reset_detected]
    /\ UNCHANGED <<cfg, loc, surf, env, hist>>

DetectNext == Detect

DetectSpec == DetectInit /\ [][DetectNext]_vars

(***************************************************************************)
(* Properties                                                              *)
(***************************************************************************)
LabelOf(label, d) == label.mon = MonthOf(d) /\ label.day = DomOf(d)

ForbiddenTerms ==
    { <<"b","o","o","k","e","d">>,
      <<"w","a","i","t","l","i","s","t","e","d">>,
      <<"j","o","i","n"," ","w","a","i","t","l","i","s","t">>,
      <<"s","e","s","s","i","o","n"," ","s","t","a","r","t","e","d">>,
      <<"c","l","a","s","s"," ","f","u","l","l">>,
      <<"c","a","n","c","e","l"," ","c","l","a","s","s">> }

\* the kinds of row, read without the engine's predicates: the normalized
\* text holds a forbidden term; the first non-empty CTA text is "book"; some
\* CTA div or button reads exactly BOOK
RowFacts ==
    [k \in RowKinds |->
        [forbidden |-> \E t \in ForbiddenTerms : Contains(TextNorm(RowCat[k]), t),
         ctaIsBook |-> FirstText(RowCat[k].ctaDivs \o RowCat[k].buttons
                                    \o RowCat[k].links) = <<"b","o","o","k">>,
         exactBook |-> \E i \in 1..Len(RowCat[k].ctaDivs \o RowCat[k].buttons) :
                          Lower(Strip((RowCat[k].ctaDivs \o RowCat[k].buttons)[i]))
                              = <<"b","o","o","k">>]]

HasForbiddenTerm(k) == RowFacts[k].forbidden

CtaIsBook(k) == RowFacts[k].ctaIsBook

HasExactBook(k) == RowFacts[k].exactBook

Verified == cfg.variant = "verified"

\* C1: in the verified script, find_row is entered only after
\* _select_target_day, _ensure_target_day_locked and _assert_exact_target_day
\* succeeded, a run that completes has confirmed the target day, and a pass
\* reads rows only after its own _assert_exact_target_day read the target
\* day's label, whatever the surface's snap-backs.
C1_ScanOnlyAfterTargetConfirmed ==
    Verified =>
        /\ loc.phase \in {"find", "commit"} =>
              hist.selectOK /\ hist.lockOK /\ hist.assertOK
        /\ outcome.status = "completed" => hist.assertOK
        /\ pc \in {"f_scan", "f_cta"} => LabelOf(hist.passLabel, now + 13)

\* a pass reads rows after the surface snapped back and the day was restored
C1_Witness ==
    /\ Verified /\ pc = "f_scan" /\ env.drifted
    /\ loc.fIdx <= loc.fCount
    /\ LabelOf(hist.passLabel, now + 13)

\* C2: BOOK is clicked only if both label reads of the guard gave the target
\* day's label and book.count() found an element whose text is exactly BOOK
\* on the row the handle resolved to; a guard read that says otherwise ends
\* the run as failed with no click.
C2_NoClickWhenGuardFalse ==
    Verified =>
        /\ hist.gLabel1 # NoLabel /\ ~LabelOf(hist.gLabel1, now + 13) =>
              hist.clicks = 0 /\ pc = "failed"
        /\ hist.gLabel2 # NoLabel /\ ~LabelOf(hist.gLabel2, now + 13) =>
              hist.clicks = 0 /\ pc = "failed"
        /\ hist.gBook = 0 => hist.clicks = 0 /\ pc = "failed"
        /\ hist.gKind # 0 /\ ~HasExactBook(hist.gKind) =>
              hist.clicks = 0 /\ pc = "failed"
        /\ hist.clicks > 0 =>
              /\ LabelOf(hist.gLabel1, now + 13) /\ LabelOf(hist.gLabel2, now + 13)
              /\ hist.gBook > 0

\* find_row returned the bookable row, the list re-rendered, and the guard's
\* book.count() found no BOOK: the run failed without a click
C2_Witness ==
    /\ Verified /\ pc = "failed" /\ hist.clicks = 0
    /\ hist.found = 1 /\ hist.gBook = 0
    /\ outcome.msg = "Exact 'BOOK' CTA not found on matched row"

\* C3: at the BOOK click the row the handle resolves to is still the class
\* at the target time, without a forbidden status term.
C3_ClickedRowStillEligible ==
    Verified /\ hist.clicks > 0 =>
        RowInfo[hist.clickKind].matches /\ ~HasForbiddenTerm(hist.clickKind)

\* C4: a run in which the cancel dialog opened during the commit never
\* reports "Clicked BOOK button".
C4_DialogNeverCommitted ==
    hist.modalOpened => outcome.msg # "Clicked BOOK button"

\* C5: a run that fails on an observed cancel dialog has clicked
\* KEEP RESERVATION.
C5_KeepClickedBeforeFailure ==
    hist.modalSeen /\ outcome.status = "failed" => hist.keepClicked

\* C6: the text find_row read of the row it returned holds none of the
\* forbidden status terms.
C6_ReturnedRowNotForbidden ==
    Verified /\ hist.found # 0 => ~HasForbiddenTerm(hist.found)

\* the waitlisted row came first in the list and the row behind it was returned
C6_Witness ==
    /\ Verified /\ pc = "c_locate" /\ env.eventsLeft = MaxEvents
    /\ Len(surf.rows) = 2 /\ HasForbiddenTerm(surf.rows[1]) /\ RowInfo[surf.rows[1]].matches
    /\ loc.row = 2 /\ hist.found = surf.rows[2]

C8_SkipTouchesNothing ==
    (now + 13) % 7 \notin {0, 1, 2} =>
        /\ pc \in {"start", "done"}
        /\ pc = "done" => outcome = [status |-> "skipped", msg |-> "not a booking day"]
        /\ ~hist.navigated /\ ~hist.scanned /\ hist.clicks = 0

\* a legacy run on a Friday ended as skipped
C8_Witness ==
    /\ cfg.variant = "legacy" /\ (now + 13) % 7 = 3
    /\ pc = "done" /\ outcome.status = "skipped"

\* C9 as stated: a run whose "now" is a Thursday ends as skipped.
C9_ThursdaySkipped ==
    now % 7 = 3 /\ pc \in {"done", "failed"} => outcome.status = "skipped"

\* C9: thirteen days after a Thursday is a Wednesday, a booking day: such a
\* run is never skipped and goes on to the calendar; the run that is skipped
\* as "not a booking day" is the one whose "now" is a Friday.
C9_ThursdayBooksFridaySkipped ==
    /\ now % 7 = 3 => outcome.status # "skipped"
    /\ now % 7 = 3 /\ pc \in {"done", "failed"} => hist.navigated
    /\ now % 7 = 4 /\ pc # "start" =>
          outcome = [status |-> "skipped", msg |-> "not a booking day"]

\* a run on a Thursday selected the target day and went on to scan rows
C9_Witness ==
    /\ now % 7 = 3 /\ hist.navigated /\ hist.scanned
    /\ outcome.status # "skipped"

\* C10: BOOK is never clicked after the guard called _select_target_day.
C10_NoClickAfterGuardReselect ==
    Verified /\ hist.clicks > 0 => ~hist.gReselect


\* C11: a run that clicked BOOK ends as completed only after it saw a
\* positive confirmation signal.
C11_SuccessOnlyAfterConfirmation ==
    hist.clicks > 0 /\ outcome.status = "completed" => hist.confirmed


Terminal == pc \in {"done", "failed"}

BudgetsRespected ==
    /\ loc.navStep <= NavMaxSteps
    /\ loc.attempt <= SelectAttempts
    /\ loc.ensRetries <= MainRetries
    /\ loc.ensIter <= loc.ensRetries
    /\ loc.fAttempt <= FindAttempts

NavSpent == pc = "nav" /\ loc.navStep = NavMaxSteps
SelectSpent == pc = "att" /\ loc.attempt = SelectAttempts
EnsureSpent == pc = "ens" /\ loc.ensIter = loc.ensRetries
FindSpent == pc = "f_top" /\ loc.fAttempt = FindAttempts

Spent == SelectSpent \/ EnsureSpent \/ FindSpent

\* C12 as stated: every run terminates, every loop stays within its budget,
\* and the engine leaves an exhausted loop (the 28 navigation steps
\* included) only by failing the run.
C12_AnyExhaustionFailsRun ==
    /\ []BudgetsRespected
    /\ <>Terminal
    /\ [][(NavSpent \/ Spent) /\ pc' # pc => outcome'.status = "failed"]_vars

\* C12, amended: every run terminates, every loop stays within its budget,
\* and the engine leaves the exhausted selection attempts, lock retries or
\* scan passes only by failing the run; the 28 navigation steps running out
\* hands over to the 5 selection attempts.
C12_TerminatesWithinBudgets ==
    /\ []BudgetsRespected
    /\ <>Terminal
    /\ [][Spent /\ pc' # pc => outcome'.status = "failed"]_vars
    /\ [][NavSpent /\ pc' # pc => pc' = "att" /\ loc'.attempt = 0]_vars

C12_Witness ==
    /\ pc = "failed"
    /\ loc.navStep = NavMaxSteps /\ loc.attempt = SelectAttempts
    /\ outcome.msg = "Unable to stabilize calendar"


\* C13: when the 28 navigation steps and the 5 click/nudge attempts of the
\* initial _select_target_day are used up, the function raises, main fails
\* with 'Date select error', the run stays failed, and no row was scanned,
\* no row was returned and BOOK was not clicked; whenever its attempts run
\* out the engine leaves _select_target_day only by that failure.
C13_NoConvergenceNoMatching ==
    /\ [][Verified /\ SelectSpent /\ pc' # pc =>
            /\ pc' = "failed"
            /\ outcome' = [status |-> "failed", msg |-> "Unable to stabilize calendar"]
            /\ hist'.clicks = 0]_vars
    /\ [](Verified /\ pc = "failed" /\ ~hist.selectOK
            /\ outcome.msg = "Unable to stabilize calendar" =>
              /\ ErrorWrapper = "Date select error"
              /\ ~hist.scanned /\ hist.found = 0 /\ hist.clicks = 0)
    /\ [](hist.scanned \/ hist.clicks > 0 => hist.selectOK \/ ~Verified)
    /\ [][pc = "failed" => pc' = "failed" /\ hist' = hist]_vars

C13_Witness ==
    /\ Verified /\ pc = "failed" /\ ~hist.selectOK /\ hist.navigated
    /\ loc.navStep = NavMaxSteps /\ loc.attempt = SelectAttempts
    /\ ErrorWrapper = "Date select error"


\* the target day was selected at once and the surface did nothing on its own
Undisturbed ==
    /\ Verified /\ Terminal /\ hist.selectOK
    /\ env.eventsLeft = MaxEvents /\ ~env.drifted

\* C14 as stated: with the target day selected at once, a quiet surface and
\* exactly one eligible row (Yoga Sculpt at Flatiron, CTA BOOK, no
\* disqualifying status; at the target time, or reading 6:15 PM), the run ends
\* committed after exactly one guard check and exactly one BOOK click.
C14_SingleRowCommitted ==
    Undisturbed /\ surf.rows \in {<<1>>, <<4>>} =>
        /\ outcome = [status |-> "completed", msg |-> "Clicked BOOK button"]
        /\ hist.guards = 1 /\ hist.clicks = 1

\* C14, amended: with the target day selected at once, a quiet surface and
\* exactly one eligible row at the configured target time (11:15 PM by
\* default), the run performs exactly one guard check and then either
\* clicks BOOK exactly once on that row and reports the click, or, in a dry
\* run, ends without a click.
C14_SingleRowOneGuardOneClick ==
    Undisturbed /\ surf.rows = <<1>> =>
        /\ hist.found = 1 /\ hist.guards = 1
        /\ \/ /\ outcome = [status |-> "completed", msg |-> "Clicked BOOK button"]
              /\ hist.clicks = 1 /\ hist.clickKind = 1
           \/ /\ outcome = [status |-> "completed", msg |-> "Dry run complete"]
              /\ hist.clicks = 0

C14_Witness ==
    /\ Undisturbed /\ surf.rows = <<1>>
    /\ outcome.msg = "Clicked BOOK button" /\ hist.guards = 1 /\ hist.clicks = 1


\* the first three attempts of _select_target_day did not see the target
\* day, the fourth does
FoundOnFourth ==
    /\ Verified /\ loc.misses = 3 /\ loc.attempt = 3
    /\ _find_calendar_day # NoDate

\* C15: when the target day is not visible on the first three attempts of
\* _select_target_day and is found on the fourth, at least three nudges
\* were issued before that; and once the found cell is clicked the function
\* returns exactly when the target day is confirmed selected (no reset to
\* today and the day lock holds), otherwise it nudges and tries again.
C15_FoundOnFourthAttempt ==
    /\ [](FoundOnFourth /\ pc \in {"att", "att_check"} =>
              loc.nudges >= 3 /\ hist.navigated)
    /\ [][FoundOnFourth /\ pc = "att_check" /\ pc' # pc =>
            IF ~_calendar_reset_detected /\ _wait_for_day_lock
            THEN /\ pc' = SelectReturnPc
                 /\ loc.selRet = "main" => hist'.selectOK
            ELSE pc' = "att" /\ loc'.attempt = 4 /\ loc'.nudges = 4]_vars

C15_Witness ==
    /\ FoundOnFourth /\ pc = "att_check" /\ loc.nudges = 3
    /\ surf.sel = target_date
    /\ ~_calendar_reset_detected /\ _wait_for_day_lock


\* C16: after the calendar snapped back to today in the middle of the
\* initial navigation, the navigation reports the target reached only when
\* it reads the target date again, the engine gets to the row scan only
\* with the target day re-locked and asserted, and, with no further event, a
\* run ends without that confirmation only when the 5 selection attempts
\* are used up.
C16_DriftMidNavigationRecovered ==
    /\ [][Verified /\ env.navDrift /\ pc = "nav" /\ pc' = "nav_lock" =>
            _read_selected_schedule_date = target_date]_vars
    /\ [](Verified /\ env.navDrift /\ loc.phase # "date" =>
              hist.lockOK /\ hist.assertOK)
    /\ [](Verified /\ env.navDrift /\ env.eventsLeft = MaxEvents - 1
             /\ Terminal /\ ~hist.assertOK =>
              /\ outcome.msg = "Unable to stabilize calendar"
              /\ loc.attempt = SelectAttempts
              /\ ~hist.scanned /\ hist.clicks = 0)

C16_Witness ==
    /\ Verified /\ env.navDrift /\ env.eventsLeft = MaxEvents - 1
    /\ hist.lockOK /\ hist.assertOK /\ surf.sel = target_date
    /\ pc = "f_top"


\* the rows of the list that pass find_row's class / studio / time test
MatchingRows(rows) == {i \in 1..Len(rows) : RowInfo[rows[i]].matches}

\* some row passes that test, and every row that does reads "Waitlisted"
OnlyWaitlistedMatch(rows) ==
    /\ MatchingRows(rows) # {}
    /\ \A i \in MatchingRows(rows) : Contains(RowInfo[rows[i]].text_norm, S_waitlisted)

\* C17: when the only row matching class, studio and time reads
\* "Waitlisted", find_row returns no row after its 26 passes, the run fails
\* with 'Target class not found on target date', and BOOK is not clicked.
C17_WaitlistedOnlyNotFound ==
    Verified /\ Terminal /\ env.eventsLeft = MaxEvents
        /\ OnlyWaitlistedMatch(surf.rows) =>
            /\ hist.found = 0 /\ hist.clicks = 0
            /\ loc.fAttempt = FindAttempts
            /\ outcome = [status |-> "failed",
                          msg |-> "Target class not found on target date"]

C17_Witness ==
    /\ Verified /\ pc = "failed" /\ env.eventsLeft = MaxEvents
    /\ surf.rows = <<2>> /\ loc.fAttempt = FindAttempts /\ hist.scanned
    /\ outcome.msg = "Target class not found on target date"


\* the rows of the list that find_row would accept
AcceptedRows(rows) == {i \in 1..Len(rows) : RowInfo[rows[i]].accepted}

\* C18: a run whose scan passes meet more than one row satisfying the
\* matching predicate fails, and clicks BOOK on none of them.
C18_AmbiguousMatchFails ==
    Verified /\ Terminal /\ env.eventsLeft = MaxEvents /\ hist.scanned
        /\ Cardinality(AcceptedRows(surf.rows)) > 1 =>
            outcome.status = "failed" /\ hist.clicks = 0


\* the positions of a run that come after its BOOK click
AfterClick == {"c_modal2", "c_ok", "mvp_reserve", "leg_confirm", "done", "failed"}

\* C19: in any run of any of the scripts BOOK is clicked at most once: a
\* click is only issued by a run that has not clicked yet, and after it the
\* engine is never again at a position before the click.
C19_AtMostOneBookClick ==
    /\ [](hist.clicks <= 1)
    /\ [](hist.clicks = 1 => pc \in AfterClick)
    /\ [][hist'.clicks # hist.clicks =>
            hist.clicks = 0 /\ hist'.clicks = 1 /\ pc' \in AfterClick]_vars

C19_Witness ==
    /\ pc = "done" /\ hist.clicks = 1
    /\ outcome = [status |-> "completed", msg |-> "Clicked BOOK button"]


\* C20: the date resolver called with a negative days-ahead offset yields a
\* rejection, never a target date.
C20_NegativeOffsetRejected ==
    pc = "done" /\ cfg.days_ahead < 0 =>
        outcome.status = "rejected" /\ outcome.date = NoDate


ClickLadder == <<"plain", "forced", "inner text", "pointer", "synthetic">>

\* C22: a commit click that produced no positive signal is followed by the
\* next strategy of the ladder, so a run that clicked BOOK and ended without
\* a positive signal has tried all five strategies in order.
C22_LadderEscalates ==
    Terminal /\ hist.clicks > 0 /\ ~hist.confirmed /\ ~hist.modalSeen =>
        hist.clicks = Len(ClickLadder)


\* C23: _wait_for_session_reload returns True only if the container was
\* seen absent or invisible at some poll and visible at a later one; a
\* container that is visible at every poll is not reported as a reload.
C23_ReloadOnlyAfterBlank ==
    pc = "returned" /\ outcome.result => hist.visibleAfterBlank


\* C24: _wait_for_session_reload ends by returning a boolean, at the
\* timeout too (then it returns whether a container is visible), and its
\* caller goes on whatever the value: no reload observed never fails it.
C24_ReloadTimeoutNotFatal ==
    /\ pc \in {"poll", "returned", "resumed"}
    /\ pc # "poll" => outcome.status \in {"returned", "resumed"}
                        /\ outcome.result \in BOOLEAN
    /\ pc # "poll" /\ loc.elapsed >= cfg.timeout_ms =>
            outcome.result = _any_visible
    /\ loc.elapsed <= cfg.timeout_ms + PollMs

C24_Witness ==
    /\ pc = "resumed" /\ outcome.status = "resumed"
    /\ loc.elapsed >= cfg.timeout_ms /\ ~outcome.result /\ hist.blankPolls > 0


\* the days the page's selection signals denote: the selected day (heading,
\* days bar, selected cell) and the cells the lock check takes as selected
SignalDays == {surf.sel} \cup SelectedNodes

\* C25: the drift check reports the target day selected only if a signal
\* denotes exactly the target's month and day; a selected cell of another
\* day of the month (15 or 21 for target day 1) never satisfies it.
C25_SelectedOnlyOnExactDay ==
    pc = "checked" /\ (outcome.selected \/ outcome.lock) =>
        \E d \in SignalDays :
            MonthOf(d) = MonthOf(target_date) /\ DomOf(d) = DomOf(target_date)


\* today's cell is rendered, marked and the selected day
TodayVisiblySelected ==
    cfg.flav.today /\ InWin(surf.win, now) /\ surf.sel = now

\* C26: _calendar_reset_detected is True exactly when today's marker is
\* present and visibly selected while the target date is not today.
C26_ResetIffTodaySelected ==
    pc = "checked" =>
        (outcome.reset <=> (target_date # now /\ TodayVisiblySelected))


(***************************************************************************)
(* find_row's scan of the rendered rows, for any TARGET_CLASS_TIME_UTC.    *)
(* cfg holds the configured target time, surf the rendered rows; the scan  *)
(* is one pass of the loop over rows.nth(i), lines 1014-1031.              *)
(***************************************************************************)
MatchLen == 2

\* TARGET_CLASS_TIME_UTC set to a quarter past one
TARGET_CLASS_LOCAL_115 == <<"1",":","1","5"," ","p","m"," ">>

B_sculpt_115 == <<"1",":","1","5"," ","P","M","\n","Y","S"," ","-"," ","Y","o","g","a"," ","S","c","u","l","p","t","\n","F","l","a","t","i","r","o","n">>

\* the rows of RowCat and, 5: the class at a quarter past one, bookable
MatchCat ==
    RowCat \o << [body |-> B_sculpt_115, ctaDivs |-> <<E_BOOK>>, buttons |-> <<>>, links |-> <<>>] >>

TimeTargets == {TARGET_CLASS_LOCAL, TARGET_CLASS_LOCAL_115, TARGET_CLASS_LOCAL_615}

\* re.sub(r"\s+", "", TARGET_CLASS_LOCAL.lower()) of the stripped setting
TimeToken(setting) == RemoveSpace(Lower(Strip(setting)))

\* the condition of lines 1018-1022 for a given token
RowMatchesToken(row, token) ==
    /\ Contains(TextNorm(row), S_ys)
    /\ Contains(TextNorm(row), S_flatiron)
    /\ Contains(TimeNorm(row), token)

\* the first i in range(rows.count()) that reaches `return rows.nth(i)`,
\* 0 when the loop over the rows ends without returning
ScanRows(rows, token) ==
    LET hits == { i \in 1..Len(rows) :
                    /\ RowMatchesToken(MatchCat[rows[i]], token)
                    /\ ~_row_has_forbidden_status(TextNorm(MatchCat[rows[i]]))
                    /\ _row_cta_text(MatchCat[rows[i]]) = S_book }
    IN  IF hits = {} THEN 0 ELSE CHOOSE i \in hits : \A j \in hits : i <= j

MatchInit ==
    /\ cfg \in [variant : {"verified"}, setting : TimeTargets]
    /\ pc = "start"
    /\ loc = [phase |-> "scan"]
    /\ surf \in [rows : UNION { [1..n -> 1..Len(MatchCat)] : n \in 0..MatchLen }]
    /\ env = [drifted |-> FALSE]
    /\ hist = [scanned |-> 0]
    /\ outcome = [status |-> "running", msg |-> "", row |-> 0]

\* one pass over the rendered rows
ScanPass ==
    /\ pc = "start"
    /\ pc' = "scanned"
    /\ hist' = [hist EXCEPT !.scanned = 1]
    /\ outcome' = [status |-> "scanned", msg |-> "",
                   row |-> ScanRows(surf.rows, TimeToken(cfg.setting))]
    /\ UNCHANGED <<cfg, loc, surf, env>>

MatchNext == ScanPass

MatchSpec == MatchInit /\ [][MatchNext]_vars

\* the time a row shows: the first line of its body
RECURSIVE FirstLine(_)
FirstLine(s) ==
    IF s = <<>> \/ Head(s) = "\n" THEN <<>> ELSE <<Head(s)>> \o FirstLine(Tail(s))

RowTime(row) == RemoveSpace(Lower(FirstLine(row.body)))

\* the exact predicate: time equality, location and category substrings,
\* no disqualifying status, a BOOK call to action
ExactMatch(row, token) ==
    /\ RowTime(row) = token
    /\ Contains(TextNorm(row), S_flatiron)
    /\ Contains(TextNorm(row), S_ys)
    /\ ~_row_has_forbidden_status(TextNorm(row))
    /\ _row_cta_text(row) = S_book

\* C27: the row a scan returns is the first row in list order whose time
\* equals the target time after normalization (with location, category and
\* status as required); a row whose time only contains the token, such as
\* 11:15 pm for the target 1:15 pm, is not returned.
C27_ExactTimeFirstMatch ==
    pc = "scanned" =>
        LET token == TimeToken(cfg.setting)
            exact == { i \in 1..Len(surf.rows) : ExactMatch(MatchCat[surf.rows[i]], token) }
        IN  /\ outcome.row # 0 => outcome.row \in exact
            /\ exact # {} => outcome.row \in exact
                              /\ \A j \in exact : outcome.row <= j


\* C28: find_row returns a row only while the target date is still the
\* selected one: a pass during which the calendar drifted is discarded and
\* retried, so no row of another day's list is ever returned.
C28_MatchTrustedOnlyIfSelected ==
    [][pc = "f_cta" /\ pc' = "c_locate" =>
            _is_target_day_selected /\ surf.sel = target_date]_vars


(***************************************************************************)
(* One step of _navigate_calendar_to_target on any calendar: cfg holds the *)
(* way the surface renders, surf the selected day and the rendered strip,  *)
(* hist what they were before the step, outcome what the step tried.       *)
(***************************************************************************)
NavSpan == 15

\* every combination of heading, today class, paging control and aria label
AllSurfaces == [heading : BOOLEAN, today : BOOLEAN, pager : BOOLEAN, aria : BOOLEAN]

\* _nudge_calendar: is_future = target_date.date() >= datetime.now().date()
is_future == target_date >= now

\* what _nudge_calendar(aggressive=False) tries, in its order: the first
\* enabled paging control, the strip containers, the generic scroll
NudgeTried ==
    LET p == IF cfg.flav.pager THEN Shift(surf.win, 1, WinLen) ELSE surf.win
        sc == Shift(p, 1, NudgePx \div CellPx)
    IN  IF cfg.flav.pager /\ _calendar_day_visible(p) THEN <<"pager">>
        ELSE (IF cfg.flav.pager THEN <<"pager">> ELSE <<>>)
                \o <<"scroll">>
                \o (IF _calendar_day_visible(sc) THEN <<>> ELSE <<"scroll">>)

NavStepInit ==
    /\ cfg \in [variant : {"verified"}, now : {MkDate(0, 2, 15)}, flav : AllSurfaces]
    /\ pc = "nav"
    /\ loc = [navStep |-> 0]
    /\ \E sel \in now..(now + NavSpan), win \in now..(now + StripAhead - WinLen + 1) :
            /\ surf = [sel |-> sel, win |-> win, rows |-> <<>>,
                       modal |-> "none", keepVis |-> FALSE]
            /\ hist = [sel0 |-> sel, win0 |-> win]
    /\ env = [drifted |-> FALSE]
    /\ outcome = [status |-> "running", msg |-> "", forward |-> TRUE,
                  tried |-> <<>>, dirs |-> <<>>]

\* the body of the loop of _navigate_calendar_to_target, once
NavStepOnce ==
    /\ pc = "nav" /\ loc.navStep = 0
    /\ _read_selected_schedule_date # target_date
    /\ LET current == _read_selected_schedule_date
           forward == IF current # NoDate THEN current < target_date ELSE TRUE
           cell == StepCell(forward)
           w == ScrollWin(forward)
           n == _nudge_calendar(FALSE)
       IN  /\ surf' = IF cell # NoDate THEN [surf EXCEPT !.sel = cell]
                      ELSE IF w # surf.win THEN [surf EXCEPT !.win = w]
                      ELSE [surf EXCEPT !.win = n.win]
           /\ outcome' =
                [status |-> "stepped", msg |-> "", forward |-> forward,
                 tried |-> IF cell # NoDate THEN <<"step">>
                           ELSE IF w # surf.win THEN <<"step", "scroll">>
                           ELSE <<"step", "scroll">> \o NudgeTried,
                 dirs |-> IF cell # NoDate THEN <<forward>>
                          ELSE IF w # surf.win THEN <<forward, forward>>
                          ELSE <<forward, forward>>
                                 \o [i \in 1..Len(NudgeTried) |-> is_future]]
    /\ pc' = "stepped"
    /\ loc' = [loc EXCEPT !.navStep = @ + 1]
    /\ UNCHANGED <<cfg, env, hist>>

NavStepNext == NavStepOnce

NavStepSpec == NavStepInit /\ [][NavStepNext]_vars

\* C29: within one navigation step the strategies are tried in the order
\* relative step, paging control, strip scroll: where a paging control is
\* present no scroll of the strip is tried before the paging control.
C29_StepOrder ==
    pc = "stepped" /\ cfg.flav.pager =>
        \A i \in 1..Len(outcome.tried) :
            outcome.tried[i] = "scroll" =>
                \E j \in 1..(i - 1) : outcome.tried[j] = "pager"

\* C30: every action of a navigation step moves in the direction chosen
\* from the current selection (forward when the target is after it or it is
\* unknown, backward otherwise), so nothing moves forward while the selected
\* date read from the page is already after the target.
C30_MovesInChosenDirection ==
    pc = "stepped" =>
        /\ \A i \in 1..Len(outcome.dirs) : outcome.dirs[i] = outcome.forward
        /\ cfg.flav.heading /\ hist.sel0 > target_date =>
                surf.win <= hist.win0 /\ surf.sel <= hist.sel0


(***************************************************************************)
(* One attempt of _select_target_day's loop on any calendar, the calendar  *)
(* control itself being rendered or not: what _find_calendar_day and       *)
(* _calendar_day_visible report and what the attempt does with it.         *)
(***************************************************************************)
\* page.locator(...) of a page whose calendar is not rendered finds nothing
LocatedDay == IF surf.calendar THEN _find_calendar_day ELSE NoDate

LocatedVisible == surf.calendar /\ _calendar_day_visible(surf.win)

LocatorInit ==
    /\ cfg \in [variant : {"verified"},
                now : MkDate(0, 2, 15)..(MkDate(0, 2, 15) + DetectDays - 1),
                flav : AllSurfaces]
    /\ pc = "att"
    /\ loc = [attempt |-> 0]
    /\ \E win \in now..(now + StripAhead - WinLen + 1), cal \in BOOLEAN :
            /\ surf = [sel |-> now, win |-> win, rows |-> <<>>, modal |-> "none",
                       keepVis |-> FALSE, calendar |-> cal]
            /\ hist = [win0 |-> win]
    /\ env = [drifted |-> FALSE]
    /\ outcome = [status |-> "running", msg |-> "", found |-> NoDate,
                  visible |-> FALSE, action |-> "none"]

\* locator = _find_calendar_day(...); None: nudge and continue; else click
LocateAttempt ==
    /\ pc = "att" /\ loc.attempt < SelectAttempts
    /\ pc' = "att_done"
    /\ loc' = [loc EXCEPT !.attempt = @ + 1]
    /\ outcome' = [status |-> "attempted", msg |-> "", found |-> LocatedDay,
                   visible |-> LocatedVisible,
                   action |-> IF LocatedDay = NoDate THEN "nudge" ELSE "click"]
    /\ surf' = IF LocatedDay # NoDate THEN [surf EXCEPT !.sel = LocatedDay]
               ELSE IF surf.calendar THEN [surf EXCEPT !.win = _nudge_calendar(TRUE).win]
               ELSE surf
    /\ UNCHANGED <<cfg, env, hist>>

LocatorNext == LocateAttempt

LocatorSpec == LocatorInit /\ [][LocatorNext]_vars

\* the target's cell is in the rendered part of the strip
TargetRendered == surf.calendar /\ InWin(hist.win0, target_date)

\* C31: the locator tells three outcomes apart: the target's cell, not
\* visible (calendar rendered, target outside the rendered window) and not
\* found (no calendar); the attempt pages or scrolls only on "not visible".
C31_NudgeOnlyWhenNotVisible ==
    pc = "att_done" =>
        /\ TargetRendered => outcome.action = "click"
        /\ outcome.action = "nudge" => surf.calendar /\ ~TargetRendered

\* C32: the cell the locator returns, and any cell that makes it report the
\* target visible, has the target's day of the month and month: a cell of
\* another month with the same number or a cell whose number only contains
\* the target's digits is never taken.
C32_LocatorExactDay ==
    pc = "att_done" =>
        /\ outcome.found # NoDate => outcome.found = target_date
        /\ outcome.visible => InWin(hist.win0, target_date)


(***************************************************************************)
(* _read_selected_schedule_date on the Gregorian calendar.  A date is its  *)
(* proleptic ordinal (date.toordinal()); cfg.now is today, surf.heading    *)
(* the month and day the heading shows, outcome.value what is read.        *)
(***************************************************************************)
IsLeap(y) == y % 4 = 0 /\ (y % 100 # 0 \/ y % 400 = 0)

MonthLen(y, m) ==
    CASE m = 2 -> IF IsLeap(y) THEN 29 ELSE 28
      [] m \in {4, 6, 9, 11} -> 30
      [] OTHER -> 31

RECURSIVE DaysBeforeMonth(_, _)
DaysBeforeMonth(y, m) ==
    IF m = 1 THEN 0 ELSE DaysBeforeMonth(y, m - 1) + MonthLen(y, m - 1)

\* date(y, m, d).toordinal()
ToOrdinal(y, m, d) ==
    365 * (y - 1) + (y - 1) \div 4 - (y - 1) \div 100 + (y - 1) \div 400
        + DaysBeforeMonth(y, m) + d

\* the years "now" is drawn from: a leap year and the year after it
HeadingYears == {2028, 2029}

\* the days between the selected day and today that Init draws from
HeadingOffsets == {0 - 201, 0 - 200, 0 - 13, 0, DaysAhead, 200, 201}

YearDays(y) == ToOrdinal(y, 1, 1)..ToOrdinal(y, 12, 31)

\* date.fromordinal(n), as year, month and day
FromOrdinal(n) ==
    LET y == CHOOSE yy \in 2027..2030 : n \in YearDays(yy)
        m == CHOOSE mm \in 1..12 :
                /\ ToOrdinal(y, mm, 1) <= n
                /\ n < ToOrdinal(y, mm, 1) + MonthLen(y, mm)
    IN  [y |-> y, m |-> m, d |-> n - ToOrdinal(y, m, 1) + 1]

\* strptime(text, "%a, %b %d") parses into the year 1900, which has no
\* Feb 29 (ValueError: return None); then replace(year=now.year) and the
\* rollover by 200 days
ReadHeading(text) ==
    IF text.d > MonthLen(1900, text.m) THEN NoDate
    ELSE LET y == FromOrdinal(now).y
             candidate == ToOrdinal(y, text.m, text.d)
         IN  IF candidate < now - RolloverDays THEN ToOrdinal(y + 1, text.m, text.d)
             ELSE IF candidate > now + RolloverDays THEN ToOrdinal(y - 1, text.m, text.d)
             ELSE candidate

HeadingInit ==
    /\ cfg \in [variant : {"verified"},
                now : UNION { YearDays(y) : y \in HeadingYears },
                offset : HeadingOffsets]
    /\ pc = "start"
    /\ loc = [phase |-> "read"]
    /\ surf = [heading |-> [m |-> FromOrdinal(cfg.now + cfg.offset).m,
                            d |-> FromOrdinal(cfg.now + cfg.offset).d]]
    /\ env = [drifted |-> FALSE]
    /\ hist = [shown |-> cfg.now + cfg.offset]
    /\ outcome = [status |-> "running", msg |-> "", value |-> NoDate]

ReadSelected ==
    /\ pc = "start"
    /\ pc' = "read"
    /\ outcome' = [status |-> "read", msg |-> "", value |-> ReadHeading(surf.heading)]
    /\ UNCHANGED <<cfg, loc, surf, env, hist>>

HeadingNext == ReadSelected

HeadingSpec == HeadingInit /\ [][HeadingNext]_vars

\* what is read has the heading's month and day, in last, this or next
\* year, within 200 days of today
ReadWithinRollover ==
    /\ outcome.value # NoDate
    /\ FromOrdinal(outcome.value).m = surf.heading.m
    /\ FromOrdinal(outcome.value).d = surf.heading.d
    /\ FromOrdinal(outcome.value).y - FromOrdinal(now).y \in {0 - 1, 0, 1}
    /\ outcome.value >= now - RolloverDays
    /\ outcome.value <= now + RolloverDays

\* C33: a heading is read as the date with its month and day within 200
\* days of today, and a heading showing today + 13 days is read back as
\* exactly today + 13 days, for every today.
C33_HeadingReadBack ==
    pc = "read" =>
        /\ ReadWithinRollover
        /\ cfg.offset = DaysAhead => outcome.value = now + DaysAhead

\* every heading but Feb 29 is read within the rollover, and one showing
\* today + 13 days is read back as that day
HeadingReadBackButFeb29 ==
    pc = "read" /\ ~(surf.heading.m = 2 /\ surf.heading.d = 29) =>
        /\ ReadWithinRollover
        /\ cfg.offset = DaysAhead => outcome.value = hist.shown


\* C34: a relative step that clicks clicks the cell next to the selected
\* one (the next day when forward, the previous day otherwise), never the
\* neighbour of a cell that is only marked as today, so each such step moves
\* the selection by exactly one day in the chosen direction.
C34_StepFromSelectedCell ==
    pc = "stepped" /\ outcome.tried = <<"step">> =>
        surf.sel = IF outcome.forward THEN hist.sel0 + 1 ELSE hist.sel0 - 1


(***************************************************************************)
(* main's commit with EXECUTE_BOOKING as the text of the process           *)
(* environment: the run from the last assertion of the pre-commit guard to *)
(* its end, on a matched row, a day that is or is not the target and a     *)
(* cancel dialog that is or is not open.                                   *)
(***************************************************************************)
E_false == <<"f","a","l","s","e">>
E_true == <<"t","r","u","e">>
E_yes == <<"y","e","s">>

\* values of EXECUTE_BOOKING in the process environment
ExecSettings ==
    { <<"1">>, E_true, <<" ","T","R","U","E","\n">>, <<"Y","e","s">>, <<"y"," ">>,
      E_false, <<"0">>, <<"o","n">>, <<"n","o">>, <<>>, <<"t","r","u","e","!">> }

\* os.getenv("EXECUTE_BOOKING", "false")
getenv_EXECUTE_BOOKING == IF cfg.envSet THEN cfg.EXECUTE_BOOKING ELSE E_false

\* a reading of the setting that takes everything but "false" for execute
execute_booking_unless_false == Lower(Strip(getenv_EXECUTE_BOOKING)) # E_false

\* (...).strip().lower() in {"1", "true", "yes", "y"}
execute_booking ==
    Lower(Strip(getenv_EXECUTE_BOOKING)) \in {<<"1">>, E_true, E_yes, <<"y">>}

CommitInit ==
    /\ \E e \in ExecSettings, set \in BOOLEAN :
          /\ set \/ e = <<>>
          /\ cfg \in [variant : {"verified"}, now : {MkDate(0, 2, 15)},
                      flav : Surfaces,
                      envSet : {set}, EXECUTE_BOOKING : {e}]
    /\ pc = "g_assert2"
    /\ \E q \in RowLists, sel \in {now, target_date}, m \in {"none", "open"}, kv \in BOOLEAN :
          /\ Len(q) >= 1 /\ RowInfo[q[1]].accepted
          /\ surf = [sel |-> sel, win |-> sel, rows |-> q, modal |-> m, keepVis |-> kv]
          /\ loc = [phase |-> "commit", selRet |-> "main", ensRet |-> "main",
                    ensRetries |-> 0, ensIter |-> 0, navStep |-> 0, attempt |-> 0,
                    fAttempt |-> 0, fIdx |-> 0, fCount |-> 0, textKind |-> 0, row |-> 1,
                    bookFallback |-> (RowInfo[q[1]].book = 0), misses |-> 0, nudges |-> 0]
    /\ env = [eventsLeft |-> MaxEvents, drifted |-> FALSE, navDrift |-> FALSE]
    /\ hist = [navigated |-> TRUE, scanned |-> TRUE, clicks |-> 0,
               clickKind |-> 0, clickSel |-> NoDate,
               selectOK |-> TRUE, lockOK |-> TRUE, assertOK |-> TRUE,
               passLabel |-> NoLabel, found |-> surf.rows[1], foundCta |-> surf.rows[1],
               foundLabel |-> NoLabel,
               gLabel1 |-> NoLabel, gLabel2 |-> NoLabel, gBook |-> NoCount, gKind |-> 0, guards |-> 1,
               gReselect |-> FALSE,
               modalOpened |-> FALSE, modalSeen |-> FALSE, keepClicked |-> FALSE,
               confirmed |-> FALSE]
    /\ outcome = [status |-> "running", msg |-> ""]

\* if not execute_booking: dry run; else book.count() and on to the click
ExecuteSetting_unless_false ==
    /\ pc = "c_exec"
    /\ IF ~execute_booking_unless_false
       THEN /\ pc' = "done"
            /\ outcome' = [status |-> "completed", msg |-> "Dry run complete"]
            /\ UNCHANGED hist
       ELSE /\ hist' = [hist EXCEPT !.gBook = BookCount,
                                    !.gKind = IF loc.row > Len(surf.rows) THEN 0
                                              ELSE surf.rows[loc.row]]
            /\ IF BookCount = 0
               THEN Fail("Exact 'BOOK' CTA not found on matched row")
               ELSE pc' = "c_click" /\ UNCHANGED outcome
    /\ UNCHANGED <<cfg, loc, surf, env>>

ExecuteSetting ==
    /\ pc = "c_exec"
    /\ IF ~execute_booking
       THEN /\ pc' = "done"
            /\ outcome' = [status |-> "completed", msg |-> "Dry run complete"]
            /\ UNCHANGED hist
       ELSE /\ hist' = [hist EXCEPT !.gBook = BookCount,
                                    !.gKind = IF loc.row > Len(surf.rows) THEN 0
                                              ELSE surf.rows[loc.row]]
            /\ IF BookCount = 0
               THEN Fail("Exact 'BOOK' CTA not found on matched row")
               ELSE pc' = "c_click" /\ UNCHANGED outcome
    /\ UNCHANGED <<cfg, loc, surf, env>>

CommitNext ==
    \/ GuardAssertAgain \/ ModalBefore \/ ExecuteSetting
    \/ Click \/ ModalAfter \/ Report
    \/ Rerender \/ ModalOpens

CommitSpec == CommitInit /\ [][CommitNext]_vars

\* the setting is one of 1, true, yes, y, whatever its case and the white
\* space around it
SettingEnables ==
    cfg.envSet /\ \E t \in {<<"1">>, E_true, E_yes, <<"y">>} :
                        Strip(Lower(cfg.EXECUTE_BOOKING)) = t

\* C35: no BOOK click is issued unless EXECUTE_BOOKING is one of 1, true,
\* yes, y (trimmed, any case); unset means dry run, and a dry run that
\* passes the guard and the dialog check ends without a click.
C35_DryRunNeverClicks ==
    /\ hist.clicks > 0 => SettingEnables
    /\ ~SettingEnables /\ pc = "done" =>
            hist.clicks = 0 /\ outcome.msg = "Dry run complete"
    /\ ~SettingEnables => pc \notin {"c_click", "c_modal2", "c_ok"}

C35_Witness ==
    /\ ~cfg.envSet /\ pc = "done" /\ outcome.msg = "Dry run complete"
    /\ hist.gLabel2 # NoLabel /\ hist.clicks = 0

\* C36: when the cancel dialog is open at the check that follows the guard,
\* the engine tries the dismissal that keeps the reservation and fails the
\* run with "Cancel modal was already open before booking click", without a
\* BOOK click, in dry-run and in execute mode alike.
C36_OpenModalFailsBeforeClick ==
    [][pc = "c_modal1" /\ _cancel_modal_present =>
            /\ outcome'.status = "failed"
            /\ outcome'.msg = "Cancel modal was already open before booking click"
            /\ hist.clicks = 0 /\ hist'.clicks = 0
            /\ hist'.modalSeen
            /\ surf'.modal = IF surf.keepVis THEN "kept" ELSE "open"]_vars

C36_Witness ==
    /\ SettingEnables /\ pc = "failed"
    /\ outcome.msg = "Cancel modal was already open before booking click"
    /\ hist.clicks = 0 /\ hist.keepClicked /\ surf.modal = "kept"


\* C37: whenever the heading shows the target date after a step of
\* _navigate_calendar_to_target, the last of its max_steps steps included,
\* the navigation returns True: it is never out of steps with the target
\* date in the heading.
C37_ReachedOnLastStepIsSuccess ==
    pc = "nav" /\ _read_selected_schedule_date = target_date =>
        loc.navStep < NavMaxSteps


\* C38: _ensure_target_day_locked raises "Target date lock could not be
\* maintained" only while the target day is not selected: when the
\* re-selection of its last iteration has selected the target day, it is
\* not out of retries with nothing left but to raise.
C38_RaiseOnlyWhenNotSelected ==
    pc = "ens" /\ loc.ensIter = loc.ensRetries => ~_is_target_day_selected

====
